---------------------------- MODULE Spec2Model ----------------------------
(***************************************************************************)
(* Block-based SQL query orchestrator (src/src/query_orchestrator.py):     *)
(* the catalog of queries, the plan builder (producer map, block-local     *)
(* dependency graph, Kahn batching, cycle detection) and the executor      *)
(* (blocks and batches in sequence, a bounded worker pool inside a batch). *)
(***************************************************************************)
EXTENDS Integers, Sequences, FiniteSets, TLC

(* ------------------------------ bounds -------------------------------- *)
\* Catalog sizes and universes of the plan-builder specification SpecPlan.
MaxQueries == 3
MaxTables == 2
MaxBlocks == 2
\* Catalog sizes and universes of the executor specification Spec.
MaxExecQueries == 3
MaxExecTables == 1
MaxExecBlocks == 2
MaxWorkers == 2

\* Engine error texts a failing query may carry.
ErrorTexts == {"e1", "e2"}

(* ---------------------------- data model ------------------------------ *)
\* SQL text is opaque to the orchestrator except for the two keyword tests
\* 'CREATE' in sql.upper() and 'INSERT' in sql.upper(); a text is modelled as
\* its sequence of words.
SqlTexts ==
    { <<"select">>, <<"create", "table">>, <<"INSERT", "into">>,
      <<"Create", "table", "insert_log">> }

\* The texts of the executor specification.
ExecSqlTexts == { <<"select">>, <<"create", "table">> }

\* str.upper() on the words of the vocabulary.
Upper(w) ==
    CASE w \in {"create", "Create", "CREATE"} -> "CREATE"
      [] w \in {"insert", "INSERT"} -> "INSERT"
      [] w = "insert_log" -> "INSERT_LOG"
      [] w = "select" -> "SELECT"
      [] w = "table" -> "TABLE"
      [] w = "into" -> "INTO"
      [] OTHER -> w

\* kw in sql.upper(): substring search, so a keyword inside a longer word
\* (an identifier such as insert_log) matches too.
InUpper(kw, sql) ==
    \E i \in DOMAIN sql :
        \/ Upper(sql[i]) = kw
        \/ (kw = "INSERT" /\ Upper(sql[i]) = "INSERT_LOG")

HasCreate(q) == InUpper("CREATE", q.sql)
HasInsert(q) == InUpper("INSERT", q.sql)

\* The Query dataclass.
Query(name, sql, deps, outs, block, code) ==
    [name |-> name, sql |-> sql, dependencies |-> deps, outputs |-> outs,
     block_name |-> block, code_name |-> code]

\* Absent dictionary entry (dict lookups are guarded by "key in dict").
NoQuery == Query(0, <<>>, {}, {}, 0, 0)

AllTables == 1 .. (IF MaxTables > MaxExecTables THEN MaxTables ELSE MaxExecTables)

(* --------------------------- plan builder ----------------------------- *)
\* for query in qs: for output in query.outputs: m[output] = query
RECURSIVE AssignOutputs(_, _, _)
AssignOutputs(m, qs, i) ==
    IF i > Len(qs) THEN m
    ELSE AssignOutputs(
            [t \in AllTables |-> IF t \in qs[i].outputs THEN qs[i] ELSE m[t]],
            qs, i + 1)

EmptyMap == [t \in AllTables |-> NoQuery]

IsInsertProducer(q) == ~HasCreate(q) /\ HasInsert(q)

\* insert_producers of build_block_execution_plan: the elif branch, so only
\* queries whose text has INSERT and no CREATE.
InsertProducers(qs) == AssignOutputs(EmptyMap, SelectSeq(qs, IsInsertProducer), 1)

\* Mutant of Producers: no override, the last writer of any kind wins.
ProducersLastWriter(qs) == AssignOutputs(EmptyMap, qs, 1)

\* producers after the override loop: the last INSERT writer where there is
\* one, else the last writer.
Producers(qs) ==
    LET base == AssignOutputs(EmptyMap, qs, 1)
        ins == InsertProducers(qs)
    IN [t \in AllTables |-> IF ins[t] # NoQuery THEN ins[t] ELSE base[t]]

\* Mutant of BlockOrder: one entry per query, block names not deduplicated.
RECURSIVE BlockOrderDup(_, _, _)
BlockOrderDup(qs, i, acc) ==
    IF i > Len(qs) THEN acc
    ELSE BlockOrderDup(qs, i + 1, Append(acc, qs[i].block_name))

\* Mutant of BlockOrder: a block name moves to the end each time it is seen
\* again, so that blocks come in the order of their last query.
RECURSIVE BlockOrderLastSeen(_, _, _)
BlockOrderLastSeen(qs, i, acc) ==
    IF i > Len(qs) THEN acc
    ELSE LET Other(b) == b # qs[i].block_name
         IN BlockOrderLastSeen(qs, i + 1,
                Append(SelectSeq(acc, Other), qs[i].block_name))

\* Keys of block_queries in insertion order: block names as first seen.
RECURSIVE BlockOrder(_, _, _)
BlockOrder(qs, i, acc) ==
    IF i > Len(qs) THEN acc
    ELSE BlockOrder(qs, i + 1,
            IF \E k \in DOMAIN acc : acc[k] = qs[i].block_name
            THEN acc ELSE Append(acc, qs[i].block_name))

\* Mutant of BlockQueries: only the queries of the first input block of the
\* name, that is the first run of queries that carry it.
BlockQueriesFirstRun(qs, b) ==
    LET first == CHOOSE x \in DOMAIN qs :
                     qs[x].block_name = b /\ \A y \in 1 .. (x - 1) : qs[y].block_name # b
        run == {x \in DOMAIN qs :
                   x >= first /\ \A y \in first .. x : qs[y].block_name = b}
    IN [i \in 1 .. Cardinality(run) |-> qs[first + i - 1]]

\* block_queries[block_name]
BlockQueries(qs, b) ==
    LET InBlock(q) == q.block_name = b IN SelectSeq(qs, InBlock)

\* remaining = {q.name: q for q in block_queries}: a dict keeps the position
\* of a key's first insertion and the value of its last.
RECURSIVE RemainingInit(_, _, _)
RemainingInit(bq, i, acc) ==
    IF i > Len(bq) THEN acc
    ELSE RemainingInit(bq, i + 1,
            IF \E k \in DOMAIN acc : acc[k].name = bq[i].name
            THEN [k \in DOMAIN acc |->
                     IF acc[k].name = bq[i].name THEN bq[i] ELSE acc[k]]
            ELSE Append(acc, bq[i]))

NamesOf(qs) == {qs[i].name : i \in DOMAIN qs}

\* table_creators: table -> last query of the block whose text has CREATE.
TableCreators(bq) == AssignOutputs(EmptyMap, SelectSeq(bq, HasCreate), 1)

\* Mutant of EdgesInto: a dependency that has no producer holds its reader
\* back, as an edge from the reader to itself.
EdgesIntoUnresolved(q, a, tc, names, producers) ==
    LET precedence == IF HasInsert(q)
                      THEN {o \in q.outputs : tc[o] # NoQuery /\ tc[o].name = a}
                      ELSE {}
        produced == {d \in q.dependencies :
                        IF producers[d] = NoQuery THEN a = q.name
                        ELSE /\ producers[d].name \in names
                             /\ producers[d].name = a}
    IN Cardinality(precedence) + Cardinality(produced)

\* Mutant of EdgesInto: only the INSERT -> CREATE precedence edges; the
\* dependencies of a query add none.
EdgesIntoPrecedenceOnly(q, a, tc, names, producers) ==
    LET precedence == IF HasInsert(q)
                      THEN {o \in q.outputs : tc[o] # NoQuery /\ tc[o].name = a}
                      ELSE {}
    IN Cardinality(precedence)

\* Number of edges a -> q.name that the graph loop adds while visiting q:
\* the INSERT -> CREATE precedence edges, then the producer edges.
EdgesInto(q, a, tc, names, producers) ==
    LET precedence == IF HasInsert(q)
                      THEN {o \in q.outputs : tc[o] # NoQuery /\ tc[o].name = a}
                      ELSE {}
        produced == {d \in q.dependencies :
                        /\ producers[d] # NoQuery
                        /\ producers[d].name \in names
                        /\ producers[d].name = a}
    IN Cardinality(precedence) + Cardinality(produced)

RECURSIVE SumEdges(_, _, _, _, _, _, _)
SumEdges(bq, i, a, b, tc, names, producers) ==
    IF i > Len(bq) THEN 0
    ELSE (IF bq[i].name = b THEN EdgesInto(bq[i], a, tc, names, producers) ELSE 0)
         + SumEdges(bq, i + 1, a, b, tc, names, producers)

\* local_graph as multiplicities: LocalGraph[<<a, b>>] is the number of times
\* b occurs in local_graph[a].
LocalGraph(bq, producers) ==
    LET tc == TableCreators(bq)
        names == NamesOf(bq)
    IN [e \in names \X names |-> SumEdges(bq, 1, e[1], e[2], tc, names, producers)]

RECURSIVE SumOver(_, _)
SumOver(f, S) ==
    IF S = {} THEN 0
    ELSE LET x == CHOOSE y \in S : TRUE IN f[x] + SumOver(f, S \ {x})

\* Mutant of LocalInDegree: an edge from a query to itself is not counted.
LocalInDegreeNoSelf(names, g) ==
    [b \in names |-> SumOver([a \in names \ {b} |-> g[<<a, b>>]], names \ {b})]

\* local_in_degree after the graph loop: one increment per appended edge.
LocalInDegree(names, g) ==
    [b \in names |-> SumOver([a \in names |-> g[<<a, b>>]], names)]

\* Mutant of Ready: one query per round, the first that is ready.
ReadyFirstOnly(remaining, indeg) ==
    LET IsReady(q) == indeg[q.name] = 0
        ready == SelectSeq(remaining, IsReady)
    IN IF ready = <<>> THEN <<>> ELSE <<ready[1]>>

\* ready = [remaining[name] for name in remaining if local_in_degree[name] == 0]
Ready(remaining, indeg) ==
    LET IsReady(q) == indeg[q.name] = 0 IN SelectSeq(remaining, IsReady)

\* del remaining[query.name] for query in ready
RemoveProcessed(remaining, ready) ==
    LET Left(q) == q.name \notin NamesOf(ready) IN SelectSeq(remaining, Left)

\* Mutant of Decrement: one decrement per processed predecessor instead of
\* one per edge.
DecrementPerQuery(indeg, g, ready) ==
    [b \in DOMAIN indeg |->
        indeg[b] - Cardinality({a \in NamesOf(ready) : g[<<a, b>>] > 0})]

\* local_in_degree[dependent] -= 1 for dependent in local_graph[query.name],
\* for every query of ready.
Decrement(indeg, g, ready) ==
    [b \in DOMAIN indeg |->
        indeg[b] - SumOver([a \in NamesOf(ready) |-> g[<<a, b>>]], NamesOf(ready))]

\* The while loop of _create_parallel_batches_for_block.  The result is the
\* batch list, or the failure with the batches placed so far and the
\* queries still in remaining.
RECURSIVE KahnLoop(_, _, _, _)
KahnLoop(remaining, indeg, g, batches) ==
    IF remaining = <<>> THEN [ok |-> TRUE, batches |-> batches, remaining |-> <<>>]
    ELSE LET ready == Ready(remaining, indeg) IN
         IF ready = <<>>
         THEN [ok |-> FALSE, batches |-> batches, remaining |-> remaining]
         ELSE KahnLoop(RemoveProcessed(remaining, ready),
                       Decrement(indeg, g, ready), g, Append(batches, ready))

\* Every query of a batch list in a batch of its own, in the order of the list.
RECURSIVE OnePerBatch(_, _, _)
OnePerBatch(batches, j, acc) ==
    IF j > Len(batches) THEN acc
    ELSE OnePerBatch(batches, j + 1,
            acc \o [m \in DOMAIN batches[j] |-> <<batches[j][m]>>])

\* Mutant of CreateParallelBatchesForBlock: a plain topological order, one
\* query per batch.
CreateSequentialBatchesForBlock(bq, producers) ==
    LET g == LocalGraph(bq, producers)
        r == KahnLoop(RemainingInit(bq, 1, <<>>), LocalInDegree(NamesOf(bq), g), g, <<>>)
    IN [r EXCEPT !.batches = OnePerBatch(r.batches, 1, <<>>)]

CreateParallelBatchesForBlock(bq, producers) ==
    LET g == LocalGraph(bq, producers)
    IN KahnLoop(RemainingInit(bq, 1, <<>>), LocalInDegree(NamesOf(bq), g), g, <<>>)

\* The UserException raised on a cycle: its message is built from the names
\* of the remaining queries only.
CircularError(remaining) ==
    [kind |-> "circular",
     names |-> [k \in DOMAIN remaining |-> remaining[k].name],
     details |-> <<>>]

\* The logging.error lines written before the raise: one per remaining query,
\* with its dependencies.
CircularLog(remaining) ==
    [k \in DOMAIN remaining |->
        [query |-> remaining[k].name, depends_on |-> remaining[k].dependencies]]

NoError == [kind |-> "none", names |-> <<>>, details |-> <<>>]

\* The loop over block_queries.keys(): blocks in first-seen order, stopping
\* at the first block that raises.
RECURSIVE BuildBlocks(_, _, _, _, _)
BuildBlocks(qs, order, i, producers, blocks) ==
    IF i > Len(order)
    THEN [ok |-> TRUE, blocks |-> blocks, error |-> NoError, log |-> <<>>,
          partial |-> <<>>]
    ELSE LET r == CreateParallelBatchesForBlock(BlockQueries(qs, order[i]), producers)
         IN IF r.ok
            THEN BuildBlocks(qs, order, i + 1, producers,
                             Append(blocks, [name |-> order[i], batches |-> r.batches]))
            ELSE [ok |-> FALSE, blocks |-> blocks,
                  error |-> CircularError(r.remaining),
                  log |-> CircularLog(r.remaining),
                  partial |-> [name |-> order[i], batches |-> r.batches]]

\* BlockOrchestrator.build_block_execution_plan
BuildBlockExecutionPlan(qs) ==
    IF qs = <<>>
    THEN [ok |-> TRUE, blocks |-> <<>>, error |-> NoError, log |-> <<>>,
          partial |-> <<>>]
    ELSE BuildBlocks(qs, BlockOrder(qs, 1, <<>>), 1, Producers(qs), <<>>)

(* ------------------------------- state -------------------------------- *)
VARIABLES
    queries,        \* self.queries: the catalog
    max_workers,    \* self.max_workers
    pc,             \* where the caller is: idle, planned, next_batch, seq, pool, done, aborted
    plan,           \* the blocks of the ExecutionPlan built by the current call
    error,          \* the exception raised to the caller
    log,            \* logging.error lines of the cycle report
    pos,            \* <<block index, batch index>> of the batch the loops of execute are at
    k,              \* index in the batch of the query a sequential loop is at
    fut,            \* per query name: state and exception of its execution
    pending,        \* the pool's work queue: submitted work items not yet taken by a thread
    completed,      \* completed_futures of _execute_batch_parallel
    failed_queries, \* failed_queries of _execute_batch_parallel
    local_times,    \* the local query_times list of _execute_batch_parallel
    query_times,    \* self.query_times (one entry per recorded duration: whose it is)
    batch_times,    \* self.batch_times (one entry per recorded duration: which batch)
    thread_local_storage, \* duckdb_client._thread_local_storage: per thread, its connection
    open_connections,     \* ids of the engine connections that are open
    thread_of,      \* per query name: the thread that is inside _execute_query for it
    config,         \* the blocks structure handed to add_queries_from_blocks
    sync_action,    \* the sync action that was called, its arguments and its result
    calls           \* number of calls of execute made on the orchestrator

catalogVars == <<queries, max_workers, config>>
planVars == <<plan, error, log>>
poolVars == <<pending, completed, failed_queries, local_times>>
statVars == <<query_times, batch_times>>
connVars == <<thread_local_storage, open_connections, thread_of>>
vars == <<queries, max_workers, pc, plan, error, log, pos, k, fut, pending,
          completed, failed_queries, local_times, query_times, batch_times,
          thread_local_storage, open_connections, thread_of, config,
          sync_action, calls>>

DefaultMaxWorkers == 4

NoPlan == <<>>

Min(a, b) == IF a < b THEN a ELSE b

\* add_queries_from_blocks appends one Query per script.
AddQuery(name, sql, deps, outs, block) ==
    /\ pc = "idle"
    /\ queries' = Append(queries, Query(name, sql, deps, outs, block, name))
    /\ UNCHANGED <<calls, sync_action, max_workers, config, pc, planVars, pos, k, fut, poolVars,
                   statVars, connVars>>

AtMostOne(S) == {{}} \cup {{x} : x \in S}

\* Block names are numbered in the order of their first appearance.
BlocksSeen(qs) == Cardinality({qs[i].block_name : i \in DOMAIN qs})

\* Catalog growth of the plan-builder specification.
AddQueryPlan ==
    /\ Len(queries) < MaxQueries
    /\ \E sql \in SqlTexts, deps \in AtMostOne(1 .. MaxTables),
          outs \in AtMostOne(1 .. MaxTables),
          block \in 1 .. Min(MaxBlocks, BlocksSeen(queries) + 1) :
          AddQuery(Len(queries) + 1, sql, deps, outs, block)

\* Mutant of BuildPlan: the call consumes the catalog while it plans.
BuildPlanConsuming ==
    /\ pc = "idle"
    /\ LET r == BuildBlockExecutionPlan(queries) IN
       /\ plan' = IF r.ok THEN r.blocks ELSE NoPlan
       /\ error' = r.error
       /\ log' = r.log
       /\ pc' = IF r.ok THEN "planned" ELSE "aborted"
    /\ queries' = <<>>
    /\ UNCHANGED <<calls, sync_action, max_workers, config, pos, k, fut, poolVars, statVars, connVars>>

\* A standalone (dry-run) call of build_block_execution_plan.
BuildPlan ==
    /\ pc = "idle"
    /\ LET r == BuildBlockExecutionPlan(queries) IN
       /\ plan' = IF r.ok THEN r.blocks ELSE NoPlan
       /\ error' = r.error
       /\ log' = r.log
       /\ pc' = IF r.ok THEN "planned" ELSE "aborted"
    /\ UNCHANGED <<calls, sync_action, catalogVars, pos, k, fut, poolVars, statVars, connVars>>

NoFuture == [state |-> "new", exc |-> "none"]

\* The calling thread; the threads of a pool are numbered from 1.
MainThread == 0
NoThread == MainThread - 1
Threads == MainThread .. (IF MaxWorkers > MaxExecQueries THEN MaxWorkers ELSE MaxExecQueries)

\* _main_db_path as set by init_connection.
MainDbPath == "out/files/.duck.db"

\* hasattr(_thread_local_storage, 'connection') is false.
NoConnection == [id |-> 0, database |-> "none"]

\* ValidationResult(message, type): the message is an error prefix and the
\* text of the exception, or the content of a report.
ValidationResult(prefix, text, body, type) ==
    [type |-> type, prefix |-> prefix, text |-> text, body |-> body]

NoResult == ValidationResult("", NoError, <<>>, "none")

\* No sync action was called.
NoSyncAction ==
    [name |-> "none", iterable |-> TRUE, validate |-> FALSE,
     available_tables |-> <<>>, result |-> NoResult]

InitCommon ==
    /\ queries = <<>>
    /\ pc = "idle"
    /\ plan = NoPlan
    /\ error = NoError
    /\ log = <<>>
    /\ pos = <<1, 1>>
    /\ k = 1
    /\ fut = <<>>
    /\ pending = <<>>
    /\ completed = {}
    /\ failed_queries = <<>>
    /\ local_times = <<>>
    /\ query_times = <<>>
    /\ batch_times = <<>>
    /\ thread_local_storage = [t \in Threads |-> NoConnection]
    /\ open_connections = {}
    /\ thread_of = <<>>
    /\ config = <<>>
    /\ sync_action = NoSyncAction
    /\ calls = 0

InitPlan == InitCommon /\ max_workers = DefaultMaxWorkers

NextPlan == AddQueryPlan \/ BuildPlan

SpecPlan == InitPlan /\ [][NextPlan]_vars

(* ------------------- catalog from the blocks structure ---------------- *)
\* Sizes of the blocks structure of the catalog specification SpecCatalog.
MaxCfgBlocks == 2
MaxCfgCodes == 2
MaxCfgScripts == 3

\* Code names of the catalog specification.
CodeNames == {"a", "a_0"}

NoTable == 0

\* A script is the list of the statements sqlglot.parse finds in it; a
\* statement has a kind, the table it targets and the tables it reads.
Statement(kind, target, from) == [kind |-> kind, target |-> target, from |-> from]

\* The scripts of the catalog specification (tables 1 and 2):
\*   SELECT 1
\*   CREATE TABLE t1 (..); CREATE TABLE t2 (..)
\*   CREATE TABLE t1 AS SELECT * FROM t2
\*   INSERT INTO t1 VALUES (..)
\*   SELECT * FROM t1
\*   CREATE TABLE t1 AS SELECT * FROM t2; followed by text that does not parse
Scripts ==
    { << Statement("select", NoTable, {}) >>,
      << Statement("create", 1, {}), Statement("create", 2, {}) >>,
      << Statement("create", 1, {2}) >>,
      << Statement("insert", 1, {}) >>,
      << Statement("select", NoTable, {1}) >>,
      << Statement("create", 1, {2}), Statement("invalid", NoTable, {}) >> }

\* The words of a statement's text that the keyword tests can see.
StatementWords(st) ==
    CASE st.kind = "create" -> <<"create", "table">>
      [] st.kind = "insert" -> <<"INSERT", "into">>
      [] OTHER -> <<st.kind>>

\* The text of a script: the texts of its statements.
RECURSIVE SqlText(_, _)
SqlText(script, i) ==
    IF i > Len(script) THEN <<>>
    ELSE StatementWords(script[i]) \o SqlText(script, i + 1)

TargetOf(st) == IF st.target = NoTable THEN {} ELSE {st.target}

\* statement.find_all(exp.Table), without the target of an INSERT.
StatementDependencies(st) ==
    IF st.kind = "insert" THEN st.from \ TargetOf(st)
    ELSE st.from \cup TargetOf(st)

\* The target of a CREATE, INSERT, UPDATE or DELETE statement.
StatementOutputs(st) ==
    IF st.kind \in {"create", "insert", "update", "delete"} THEN TargetOf(st) ELSE {}

\* sqlglot.parse raises on the script: some part of it is no statement.
ParseFails(script) == \E i \in DOMAIN script : script[i].kind = "invalid"

\* SQLParser.extract_dependencies_and_outputs on table names that need no
\* quoting: the tables read, less the tables the script creates, and the
\* tables written.
ExtractDependenciesAndOutputs(script) ==
    LET create_outputs ==
            UNION {TargetOf(script[i]) : i \in {j \in DOMAIN script : script[j].kind = "create"}}
    IN IF ParseFails(script)
       THEN [dependencies |-> {}, outputs |-> {}]
       ELSE [dependencies |->
                UNION {StatementDependencies(script[i]) : i \in DOMAIN script} \ create_outputs,
             outputs |-> UNION {StatementOutputs(script[i]) : i \in DOMAIN script}]

\* BlockOrchestrator._parse_sql
ParseSql(name, script, block_name, code_name) ==
    LET r == ExtractDependenciesAndOutputs(script)
    IN Query(name, SqlText(script, 1), r.dependencies, r.outputs, block_name, code_name)

\* Mutant of GetQueryName: the index is appended whatever the number of scripts.
GetQueryNameIndexed(code, script_index) ==
    code.name \o "_" \o ToString(script_index)

\* SQLParser.get_query_name, script_index counted from 0.
GetQueryName(code, script_index) ==
    IF Len(code.script) > 1
    THEN code.name \o "_" \o ToString(script_index)
    ELSE code.name

\* The queries of one code unit, in script order.
CodeQueries(block, code) ==
    [i \in DOMAIN code.script |->
        ParseSql(GetQueryName(code, i - 1), code.script[i], block.name, code.name)]

\* SQLParser.iterate_blocks with the loop body of add_queries_from_blocks:
\* the queries of the codes of a block from code j on, then of the blocks
\* from block i on.
RECURSIVE CodesFrom(_, _)
CodesFrom(block, j) ==
    IF j > Len(block.codes) THEN <<>>
    ELSE CodeQueries(block, block.codes[j]) \o CodesFrom(block, j + 1)

RECURSIVE BlocksFrom(_, _)
BlocksFrom(blocks, i) ==
    IF i > Len(blocks) THEN <<>>
    ELSE CodesFrom(blocks[i], 1) \o BlocksFrom(blocks, i + 1)

\* BlockOrchestrator.add_queries_from_blocks
AddQueriesFromBlocks ==
    /\ pc = "idle"
    /\ Len(queries) + Len(BlocksFrom(config, 1)) <= MaxCfgScripts
    /\ queries' = queries \o BlocksFrom(config, 1)
    /\ UNCHANGED <<calls, sync_action, max_workers, config, pc, planVars, pos, k, fut, poolVars,
                   statVars, connVars>>

\* The blocks structure of the configuration is written before it is loaded:
\* a block is added, a code unit with its first script is added to the last
\* block, a further script is added to the last code unit.
Editing == pc = "idle" /\ queries = <<>>

ConfigUnchanged ==
    UNCHANGED <<calls, sync_action, queries, max_workers, pc, planVars, pos, k, fut, poolVars,
                statVars, connVars>>

ConfigAddBlock ==
    /\ Editing
    /\ Len(config) < MaxCfgBlocks
    /\ \E name \in 1 .. Min(MaxBlocks, Cardinality({config[i].name : i \in DOMAIN config}) + 1) :
          config' = Append(config, [name |-> name, codes |-> <<>>])
    /\ ConfigUnchanged

ConfigAddCode ==
    /\ Editing
    /\ config # <<>>
    /\ Len(config[Len(config)].codes) < MaxCfgCodes
    /\ Len(BlocksFrom(config, 1)) < MaxCfgScripts
    /\ \E name \in CodeNames, s \in Scripts :
          config' = [config EXCEPT ![Len(config)].codes =
                        Append(@, [name |-> name, script |-> <<s>>])]
    /\ ConfigUnchanged

ConfigAddScript ==
    /\ Editing
    /\ config # <<>>
    /\ config[Len(config)].codes # <<>>
    /\ Len(BlocksFrom(config, 1)) < MaxCfgScripts
    /\ \E s \in Scripts :
          LET b == Len(config)
              c == Len(config[b].codes)
          IN config' = [config EXCEPT ![b].codes[c].script = Append(@, s)]
    /\ ConfigUnchanged

\* A second call of build_block_execution_plan on the same orchestrator.
BuildPlanAgain ==
    /\ pc = "planned"
    /\ LET r == BuildBlockExecutionPlan(queries) IN
       /\ plan' = IF r.ok THEN r.blocks ELSE NoPlan
       /\ error' = r.error
       /\ log' = r.log
       /\ pc' = IF r.ok THEN "replanned" ELSE "aborted"
    /\ UNCHANGED <<calls, sync_action, catalogVars, pos, k, fut, poolVars, statVars, connVars>>

NextCatalog ==
    \/ ConfigAddBlock
    \/ ConfigAddCode
    \/ ConfigAddScript
    \/ AddQueriesFromBlocks
    \/ BuildPlan
    \/ BuildPlanAgain

SpecCatalog == InitPlan /\ [][NextCatalog]_vars

(* ----------------------------- sync actions --------------------------- *)
\* SQLParser.iterate_blocks: one item per script, in block, code and script
\* order, with the 0-based index of the script in its code.
RECURSIVE IterateCodes(_, _)
IterateCodes(block, j) ==
    IF j > Len(block.codes) THEN <<>>
    ELSE [i \in DOMAIN block.codes[j].script |->
             [block |-> block, code |-> block.codes[j],
              script |-> block.codes[j].script[i], script_index |-> i - 1]]
         \o IterateCodes(block, j + 1)

RECURSIVE IterateBlocks(_, _)
IterateBlocks(blocks, i) ==
    IF i > Len(blocks) THEN <<>>
    ELSE IterateCodes(blocks[i], 1) \o IterateBlocks(blocks, i + 1)

\* sorted(S) for a set of table names.
RECURSIVE Sorted(_)
Sorted(S) ==
    IF S = {} THEN <<>>
    ELSE LET m == CHOOSE x \in S : \A y \in S : x <= y
         IN <<m>> \o Sorted(S \ {m})

\* MessageType members.
Success == "SUCCESS"
Warning == "WARNING"
Danger == "DANGER"

\* TypeError raised by iterating a blocks argument that is not iterable.
NotIterableError == [kind |-> "type_error", names |-> <<>>, details |-> <<>>]

\* AttributeError: 'Batch' object has no attribute 'block_name'
BatchAttributeError == [kind |-> "attribute_error", names |-> <<>>, details |-> <<>>]

\* The except clause of a sync action: the exception becomes a DANGER result.
Failure(prefix, e) == ValidationResult(prefix, e, <<>>, Danger)

\* The two passes of expected_input_tables: the union of the outputs or of
\* the dependencies of all scripts.
RECURSIVE UpdateAll(_, _, _, _)
UpdateAll(acc, items, i, field) ==
    IF i > Len(items) THEN acc
    ELSE UpdateAll(acc \cup ExtractDependenciesAndOutputs(items[i].script)[field],
                   items, i + 1, field)

\* Mutant of ExternalTables: one pass, in which a table counts as external
\* when it is read before any script has written it.
ExternalTablesOnePass(blocks) ==
    LET items == IterateBlocks(blocks, 1)
    IN UNION {ExtractDependenciesAndOutputs(items[i].script).dependencies
                 \ UpdateAll({}, SubSeq(items, 1, i), 1, "outputs") :
              i \in DOMAIN items}

\* external_tables = all_dependencies - all_outputs
ExternalTables(blocks) ==
    LET items == IterateBlocks(blocks, 1)
        all_outputs == UpdateAll({}, items, 1, "outputs")
        all_dependencies == UpdateAll({}, items, 1, "dependencies")
    IN all_dependencies \ all_outputs

\* An input table of the component: its destination is a table name with a
\* file suffix.
Destination(table, suffix) == [table |-> table, suffix |-> suffix]

\* A table that the scripts of the catalog specification never mention.
OtherTable == MaxTables + 1

\* The available_tables arguments of the sync-action specification.
AvailableTables ==
    { << Destination(1, ".csv") >>,
      << Destination(1, ""), Destination(2, ".parquet") >>,
      << Destination(1, ".parq"), Destination(2, ".csv"), Destination(OtherTable, ".csv") >> }

\* destination.removesuffix(".csv").removesuffix(".parquet").removesuffix(".parq")
\* on a destination with at most one of the three suffixes.
RemoveSuffixes(d) ==
    IF d.suffix \in {"", ".csv", ".parquet", ".parq"} THEN d.table ELSE NoTable

\* _build_validation_message
BuildValidationMessage(expected, available, missing, extra) ==
    IF expected = {} THEN [required |-> <<>>, available |-> <<>>,
                           missing |-> <<>>, extra |-> <<>>]
    ELSE LET req == Sorted(expected)
             av == Sorted(available)
         IN [required |-> [i \in DOMAIN req |->
                              [table |-> req[i], ok |-> req[i] \in available]],
             available |-> [i \in DOMAIN av |->
                              [table |-> av[i], ok |-> av[i] \in expected]],
             missing |-> Sorted(missing),
             extra |-> Sorted(extra)]

\* _validate_against_available_tables
ValidateAgainstAvailableTables(expected_tables, available_tables) ==
    LET available_table_names ==
            {RemoveSuffixes(available_tables[i]) : i \in DOMAIN available_tables}
        missing_tables == expected_tables \ available_table_names
        extra_tables == available_table_names \ expected_tables
        message == BuildValidationMessage(expected_tables, available_table_names,
                                          missing_tables, extra_tables)
    IN ValidationResult("", NoError, message,
                        IF missing_tables # {} THEN Danger
                        ELSE IF extra_tables # {} THEN Warning
                        ELSE Success)

ExpectedInputTablesPrefix == "Error analyzing expected input tables: "

\* ExpectedInputTablesAction.expected_input_tables; validate is false when
\* available_tables is None.
ExpectedInputTablesResult(blocks, iterable, validate, available_tables) ==
    IF ~iterable THEN Failure(ExpectedInputTablesPrefix, NotIterableError)
    ELSE LET external_tables == ExternalTables(blocks)
         IN IF ~validate
            THEN ValidationResult("", NoError, Sorted(external_tables), Success)
            ELSE ValidateAgainstAvailableTables(external_tables, available_tables)

\* The list of query dictionaries of lineage_visualization.
LineageQueries(blocks) ==
    LET items == IterateBlocks(blocks, 1)
    IN [i \in DOMAIN items |->
           LET r == ExtractDependenciesAndOutputs(items[i].script)
           IN [name |-> GetQueryName(items[i].code, items[i].script_index),
               block |-> items[i].block.name,
               code |-> items[i].code.name,
               dependencies |-> r.dependencies,
               outputs |-> r.outputs,
               sql |-> SqlText(items[i].script, 1)]]

\* The keys of the blocks dictionary of _generate_lineage_markdown, in
\* insertion order.
RECURSIVE LineageBlocks(_, _, _)
LineageBlocks(qs, i, acc) ==
    IF i > Len(qs) THEN acc
    ELSE LineageBlocks(qs, i + 1,
            IF \E j \in DOMAIN acc : acc[j] = qs[i].block
            THEN acc ELSE Append(acc, qs[i].block))

\* _generate_lineage_markdown: per table, in sorted order, its readers and
\* its creators; per block, in first-seen order, its queries.
GenerateLineageMarkdown(qs) ==
    LET all_tables == UNION {qs[i].dependencies \cup qs[i].outputs : i \in DOMAIN qs}
        tables == Sorted(all_tables)
        blocks == LineageBlocks(qs, 1, <<>>)
        Names(s) == [i \in DOMAIN s |-> s[i].name]
    IN [tables |->
            [i \in DOMAIN tables |->
                LET Reads(q) == tables[i] \in q.dependencies
                    Creates(q) == tables[i] \in q.outputs
                IN [table |-> tables[i],
                    read_by |-> Names(SelectSeq(qs, Reads)),
                    created_by |-> Names(SelectSeq(qs, Creates))]],
        flow |->
            [i \in DOMAIN blocks |->
                LET InBlock(q) == q.block = blocks[i]
                    bq == SelectSeq(qs, InBlock)
                IN [block |-> blocks[i],
                    queries |-> [j \in DOMAIN bq |->
                                    [name |-> bq[j].name, code |-> bq[j].code,
                                     inputs |-> Sorted(bq[j].dependencies),
                                     outputs |-> Sorted(bq[j].outputs),
                                     sql |-> bq[j].sql]]]]]

LineageVisualizationPrefix == "Error generating lineage visualization: "

\* LineageVisualizationAction.lineage_visualization
LineageVisualizationResult(blocks, iterable) ==
    IF ~iterable THEN Failure(LineageVisualizationPrefix, NotIterableError)
    ELSE ValidationResult("", NoError,
                          GenerateLineageMarkdown(LineageQueries(blocks)), Success)

\* The execution-flow loop of _generate_execution_plan_markdown.  The loop
\* "for batch in batches" runs over the Blocks of the ExecutionPlan and
\* "for q in batch" over the Batches of a Block, so q.block_name is looked up
\* on a Batch and raises as soon as a Block with a batch is visited.
FlowRaises(qs, blocks) ==
    /\ qs # <<>>
    /\ \E i \in DOMAIN blocks : blocks[i].batches # <<>>

\* _generate_execution_plan_markdown, when nothing raises: the summary, the
\* execution flow by block (no Block of the plan has a batch to list), and
\* the dependency analysis by query.
GenerateExecutionPlanMarkdown(qs, blocks, workers) ==
    LET order == BlockOrder(qs, 1, <<>>)
    IN [total_queries |-> Len(qs),
        total_batches |-> Len(blocks),
        max_workers |-> workers,
        flow |-> [i \in DOMAIN order |-> [block |-> order[i], batches |-> <<>>]],
        analysis |-> [i \in DOMAIN qs |->
                         [name |-> qs[i].name, block |-> qs[i].block_name,
                          code |-> qs[i].code_name,
                          dependencies |-> Sorted(qs[i].dependencies),
                          outputs |-> Sorted(qs[i].outputs)]]]

ExecutionPlanVisualizationPrefix == "Error generating execution plan visualization: "

\* Mutant of ExecutionPlanVisualizationResult: the plan is built before the
\* try block is entered, so that its error is not caught.
ExecutionPlanVisualizationUncaught(blocks, iterable, workers) ==
    IF ~iterable THEN Failure(ExecutionPlanVisualizationPrefix, NotIterableError)
    ELSE LET qs == BlocksFrom(blocks, 1)
             r == BuildBlockExecutionPlan(qs)
         IN IF ~r.ok THEN ValidationResult("", r.error, <<>>, "raised")
            ELSE IF FlowRaises(qs, r.blocks)
            THEN Failure(ExecutionPlanVisualizationPrefix, BatchAttributeError)
            ELSE ValidationResult("", NoError,
                     GenerateExecutionPlanMarkdown(qs, r.blocks, workers), Success)

\* ExecutionPlanVisualizationAction.execution_plan_visualization: a fresh
\* orchestrator is loaded with the blocks and asked for its plan.
ExecutionPlanVisualizationResult(blocks, iterable, workers) ==
    IF ~iterable THEN Failure(ExecutionPlanVisualizationPrefix, NotIterableError)
    ELSE LET qs == BlocksFrom(blocks, 1)
             r == BuildBlockExecutionPlan(qs)
         IN IF ~r.ok THEN Failure(ExecutionPlanVisualizationPrefix, r.error)
            ELSE IF FlowRaises(qs, r.blocks)
            THEN Failure(ExecutionPlanVisualizationPrefix, BatchAttributeError)
            ELSE ValidationResult("", NoError,
                     GenerateExecutionPlanMarkdown(qs, r.blocks, workers), Success)

\* A sync action is one call on a component that has loaded nothing: it is
\* handed the blocks structure, or something that is no blocks structure at
\* all, and its result is what the caller is left with.
SyncActionCalled(name, iterable, validate, available_tables, result) ==
    /\ pc = "idle"
    /\ queries = <<>>
    /\ iterable \/ config = <<>>
    /\ sync_action' = [name |-> name, iterable |-> iterable, validate |-> validate,
                       available_tables |-> available_tables, result |-> result]
    /\ pc' = "reported"
    /\ UNCHANGED <<calls, catalogVars, planVars, pos, k, fut, poolVars, statVars,
                   connVars>>

ExpectedInputTables ==
    \E iterable \in BOOLEAN :
        \/ SyncActionCalled("expected_input_tables", iterable, FALSE, <<>>,
               ExpectedInputTablesResult(config, iterable, FALSE, <<>>))
        \/ \E available_tables \in AvailableTables :
               SyncActionCalled("expected_input_tables", iterable, TRUE,
                   available_tables,
                   ExpectedInputTablesResult(config, iterable, TRUE, available_tables))

LineageVisualization ==
    \E iterable \in BOOLEAN :
        SyncActionCalled("lineage_visualization", iterable, FALSE, <<>>,
            LineageVisualizationResult(config, iterable))

ExecutionPlanVisualization ==
    \E iterable \in BOOLEAN :
        SyncActionCalled("execution_plan_visualization", iterable, FALSE, <<>>,
            ExecutionPlanVisualizationResult(config, iterable, max_workers))

NextActions ==
    \/ ConfigAddBlock
    \/ ConfigAddCode
    \/ ConfigAddScript
    \/ ExpectedInputTables
    \/ LineageVisualization
    \/ ExecutionPlanVisualization

SpecActions == InitPlan /\ [][NextActions]_vars

(* ------------------------------ executor ------------------------------ *)
\* Catalog growth of the executor specification.
AddQueryExec ==
    /\ Len(queries) < MaxExecQueries
    /\ \E sql \in ExecSqlTexts, deps \in SUBSET (1 .. MaxExecTables),
          outs \in SUBSET (1 .. MaxExecTables),
          block \in 1 .. Min(MaxExecBlocks, BlocksSeen(queries) + 1) :
          AddQuery(Len(queries) + 1, sql, deps, outs, block)

\* The two for loops of execute: the batch after <<bi, bj>>, skipping blocks
\* without batches; <<Len(blocks) + 1, 1>> when the loops are exhausted.
RECURSIVE FirstBatchFrom(_, _)
FirstBatchFrom(blocks, bi) ==
    IF bi > Len(blocks) THEN <<Len(blocks) + 1, 1>>
    ELSE IF blocks[bi].batches = <<>> THEN FirstBatchFrom(blocks, bi + 1)
    ELSE <<bi, 1>>

NextBatchPos(blocks, p) ==
    IF p[2] < Len(blocks[p[1]].batches) THEN <<p[1], p[2] + 1>>
    ELSE FirstBatchFrom(blocks, p[1] + 1)

CurBatch == plan[pos[1]].batches[pos[2]]

BatchNames(batch) == [i \in DOMAIN batch |-> batch[i].name]

(* Thread-local engine connections (src/src/duckdb_client.py). *)
\* A connection object the engine has not handed out: the lowest free id.
FreshId(open) == CHOOSE i \in 1 .. (Cardinality(open) + 1) : i \notin open

\* duckdb.connect(database=_main_db_path, config=_main_config)
Connect(open) == [id |-> FreshId(open), database |-> MainDbPath]

\* Mutant of GetThreadConnection: every thread is handed one shared connection.
GetThreadConnectionShared(storage, open, t) ==
    [storage |-> [storage EXCEPT ![t] = [id |-> 1, database |-> MainDbPath]],
     open |-> open \cup {1}]

\* get_thread_connection on thread t: the stored connection, created first if
\* the thread has none.
GetThreadConnection(storage, open, t) ==
    IF storage[t] # NoConnection
    THEN [storage |-> storage, open |-> open]
    ELSE LET c == Connect(open)
         IN [storage |-> [storage EXCEPT ![t] = c], open |-> open \cup {c.id}]

\* Mutant of CloseThreadConnection: the connection is left open in the storage.
CloseThreadConnectionLeak(storage, open, t) ==
    [storage |-> storage, open |-> open]

\* close_thread_connection on thread t: connection.close(), then delattr.  The
\* engine's close() returns normally.
CloseThreadConnection(storage, open, t) ==
    IF storage[t] # NoConnection
    THEN [storage |-> [storage EXCEPT ![t] = NoConnection],
          open |-> open \ {storage[t].id}]
    ELSE [storage |-> storage, open |-> open]

\* Mutant of ExecuteStart: when a block cannot be ordered, the blocks planned
\* before it are executed all the same.
ExecuteStartLazy ==
    /\ pc = "idle"
    /\ LET r == BuildBlockExecutionPlan(queries) IN
       /\ plan' = r.blocks
       /\ error' = NoError
       /\ log' = r.log
       /\ pc' = "next_batch"
       /\ pos' = FirstBatchFrom(r.blocks, 1)
    /\ fut' = [n \in NamesOf(queries) |-> NoFuture]
    /\ thread_of' = [n \in NamesOf(queries) |-> NoThread]
    /\ query_times' = <<>>
    /\ batch_times' = <<>>
    /\ calls' = calls + 1
    /\ UNCHANGED <<sync_action, catalogVars, k, poolVars, thread_local_storage,
                   open_connections>>

\* execute up to the loops: the statistics are reset and the plan is built;
\* a cycle error of the plan builder propagates to the caller.
ExecuteStart ==
    /\ pc = "idle"
    /\ LET r == BuildBlockExecutionPlan(queries) IN
       /\ plan' = IF r.ok THEN r.blocks ELSE NoPlan
       /\ error' = r.error
       /\ log' = r.log
       /\ pc' = IF r.ok THEN "next_batch" ELSE "aborted"
       /\ pos' = IF r.ok THEN FirstBatchFrom(r.blocks, 1) ELSE pos
    /\ fut' = [n \in NamesOf(queries) |-> NoFuture]
    /\ thread_of' = [n \in NamesOf(queries) |-> NoThread]
    /\ query_times' = <<>>
    /\ batch_times' = <<>>
    /\ calls' = calls + 1
    /\ UNCHANGED <<sync_action, catalogVars, k, poolVars, thread_local_storage,
                   open_connections>>

\* Mutant of PoolSize: one thread per query of the batch.
PoolSizeUnbounded(batch) == Len(batch)

\* max_workers = min(self.max_workers, len(batch)) of _execute_batch_parallel
PoolSize(batch) == Min(max_workers, Len(batch))

\* _execute_query entered for the query named n.
Started(f, n) == [f EXCEPT ![n] = [state |-> "running", exc |-> "none"]]
Succeeded(f, n) == [f EXCEPT ![n] = [state |-> "ok", exc |-> "none"]]
Failed(f, n, e) == [f EXCEPT ![n] = [state |-> "failed", exc |-> e]]

\* _execute_query up to the engine call, on thread t for the query named n:
\* the thread's connection is acquired.
Enter(storage, open, n, t) ==
    LET c == GetThreadConnection(storage, open, t) IN
    /\ thread_local_storage' = c.storage
    /\ open_connections' = c.open
    /\ thread_of' = [thread_of EXCEPT ![n] = t]

\* The finally clause of _execute_query for the query named n.
Leave(n) ==
    LET c == CloseThreadConnection(thread_local_storage, open_connections,
                                   thread_of[n]) IN
    /\ thread_local_storage' = c.storage
    /\ open_connections' = c.open
    /\ thread_of' = [thread_of EXCEPT ![n] = NoThread]

\* The finally clause for the query named n, then _execute_query entered for
\* the query named m on the same thread.
LeaveEnter(n, m) ==
    LET t == thread_of[n]
        c == CloseThreadConnection(thread_local_storage, open_connections, t)
        d == GetThreadConnection(c.storage, c.open, t) IN
    /\ thread_local_storage' = d.storage
    /\ open_connections' = d.open
    /\ thread_of' = [thread_of EXCEPT ![n] = NoThread, ![m] = t]

\* A batch whose queries run one after the other on the calling thread:
\* len(batch) == 1 in execute, or max_workers == 1 in _execute_batch_parallel.
BeginSequential ==
    /\ pc = "next_batch"
    /\ pos[1] <= Len(plan)
    /\ (Len(CurBatch) = 1 \/ PoolSize(CurBatch) = 1)
    /\ pc' = "seq"
    /\ k' = 1
    /\ local_times' = <<>>
    /\ fut' = Started(fut, CurBatch[1].name)
    /\ Enter(thread_local_storage, open_connections, CurBatch[1].name, MainThread)
    /\ UNCHANGED <<calls, sync_action, catalogVars, planVars, pos, pending, completed,
                   failed_queries, statVars>>

\* The batch is over: batch_times gets its duration and the loops advance.
BatchDone(times) ==
    /\ query_times' = query_times \o times
    /\ batch_times' = Append(batch_times, pos)
    /\ pos' = NextBatchPos(plan, pos)
    /\ pc' = "next_batch"

\* The running query of a sequential batch returns.
SeqFinishOk ==
    /\ pc = "seq"
    /\ LET n == CurBatch[k].name IN
       /\ IF k < Len(CurBatch)
          THEN /\ fut' = Started(Succeeded(fut, n), CurBatch[k + 1].name)
               /\ LeaveEnter(n, CurBatch[k + 1].name)
               /\ k' = k + 1
               /\ local_times' = Append(local_times, n)
               /\ UNCHANGED <<pc, pos, statVars>>
          ELSE /\ fut' = Succeeded(fut, n)
               /\ Leave(n)
               /\ BatchDone(Append(local_times, n))
               /\ UNCHANGED <<k, local_times>>
    /\ UNCHANGED <<calls, sync_action, catalogVars, planVars, pending, completed, failed_queries>>

\* UserException(f"Query '{name}' failed: {e}")
QueryFailedError(n, e) ==
    [kind |-> "query_failed", names |-> <<n>>,
     details |-> <<[query |-> n, text |-> e]>>]

\* Mutant of SeqFinishFail: the failure is swallowed and the loops go on.
SeqFinishFailContinue ==
    /\ pc = "seq"
    /\ \E e \in ErrorTexts : fut' = Failed(fut, CurBatch[k].name, e)
    /\ Leave(CurBatch[k].name)
    /\ BatchDone(local_times)
    /\ UNCHANGED <<calls, sync_action, catalogVars, planVars, k, poolVars>>

\* Mutant of SeqFinishFail: a failing query of a sequential batch is passed
\* over and the next query of the batch is started; the batch raises only
\* when its last query fails.
SeqFinishFailSkip ==
    /\ pc = "seq"
    /\ \E e \in ErrorTexts :
          LET n == CurBatch[k].name IN
          IF k < Len(CurBatch)
          THEN /\ fut' = Started(Failed(fut, n, e), CurBatch[k + 1].name)
               /\ LeaveEnter(n, CurBatch[k + 1].name)
               /\ k' = k + 1
               /\ UNCHANGED <<pc, error>>
          ELSE /\ fut' = Failed(fut, n, e)
               /\ Leave(n)
               /\ error' = QueryFailedError(n, e)
               /\ pc' = "aborted"
               /\ UNCHANGED k
    /\ UNCHANGED <<calls, sync_action, catalogVars, plan, log, pos, poolVars, statVars>>

\* The running query of a sequential batch raises.
SeqFinishFail ==
    /\ pc = "seq"
    /\ \E e \in ErrorTexts :
          LET n == CurBatch[k].name IN
          /\ fut' = Failed(fut, n, e)
          /\ Leave(n)
          /\ error' = QueryFailedError(n, e)
          /\ pc' = "aborted"
    /\ UNCHANGED <<calls, sync_action, catalogVars, plan, log, pos, k, poolVars, statVars>>

\* executor.submit for every query of the batch.
BeginPool ==
    /\ pc = "next_batch"
    /\ pos[1] <= Len(plan)
    /\ Len(CurBatch) # 1
    /\ PoolSize(CurBatch) # 1
    /\ pc' = "pool"
    /\ pending' = BatchNames(CurBatch)
    /\ fut' = [n \in DOMAIN fut |->
                 IF n \in NamesOf(CurBatch)
                 THEN [state |-> "pending", exc |-> "none"] ELSE fut[n]]
    /\ completed' = {}
    /\ failed_queries' = <<>>
    /\ local_times' = <<>>
    /\ thread_local_storage' =
          [t \in Threads |->
              IF t = MainThread THEN thread_local_storage[t] ELSE NoConnection]
    /\ UNCHANGED <<calls, sync_action, catalogVars, planVars, pos, k, statVars, open_connections,
                   thread_of>>

Running == {n \in DOMAIN fut : fut[n].state = "running"}

\* Thread t is not inside _execute_query.
Idle(t) == \A n \in DOMAIN thread_of : thread_of[n] # t

\* A pool thread takes the oldest work item and starts it.
PoolStart ==
    /\ pc = "pool"
    /\ pending # <<>>
    /\ \E t \in 1 .. PoolSize(CurBatch) :
          /\ Idle(t)
          /\ Enter(thread_local_storage, open_connections, Head(pending), t)
    /\ fut' = Started(fut, Head(pending))
    /\ pending' = Tail(pending)
    /\ UNCHANGED <<calls, sync_action, catalogVars, pc, planVars, pos, k, completed, failed_queries,
                   local_times, statVars>>

PoolFinishOk ==
    /\ pc = "pool"
    /\ \E n \in Running : fut' = Succeeded(fut, n) /\ Leave(n)
    /\ UNCHANGED <<calls, sync_action, catalogVars, pc, planVars, pos, k, poolVars, statVars>>

\* Mutant of PoolFinishFail: the failed query is put back in the work queue.
PoolFinishFailRetry ==
    /\ pc = "pool"
    /\ \E n \in Running :
          /\ fut' = [fut EXCEPT ![n] = [state |-> "pending", exc |-> "none"]]
          /\ pending' = Append(pending, n)
          /\ Leave(n)
    /\ UNCHANGED <<calls, sync_action, catalogVars, pc, planVars, pos, k, completed, failed_queries,
                   local_times, statVars>>

PoolFinishFail ==
    /\ pc = "pool"
    /\ \E n \in Running, e \in ErrorTexts : fut' = Failed(fut, n, e) /\ Leave(n)
    /\ UNCHANGED <<calls, sync_action, catalogVars, pc, planVars, pos, k, poolVars, statVars>>

IsDone(f) == f.state \in {"ok", "failed", "cancelled"}

\* One iteration of the as_completed loop.
PoolCollect ==
    /\ pc = "pool"
    /\ \E n \in NamesOf(CurBatch) \ completed :
          /\ IsDone(fut[n])
          /\ completed' = completed \cup {n}
          /\ IF fut[n].state = "ok"
             THEN /\ local_times' = Append(local_times, n)
                  /\ UNCHANGED failed_queries
             ELSE /\ failed_queries' =
                        Append(failed_queries, [query |-> n, text |-> fut[n].exc])
                  /\ UNCHANGED local_times
    /\ UNCHANGED <<calls, sync_action, catalogVars, pc, planVars, pos, k, fut, pending, statVars,
                   connVars>>

\* _cancel_remaining_futures: future.cancel() succeeds on a pending future.
CancelRemainingFutures(f, batch, done) ==
    [n \in DOMAIN f |->
        IF n \in NamesOf(batch) \ done /\ ~IsDone(f[n]) /\ f[n].state = "pending"
        THEN [state |-> "cancelled", exc |-> "none"] ELSE f[n]]

\* Mutant of BatchFailedError: only the first failure observed is reported.
BatchFailedErrorFirst(failed) ==
    [kind |-> "batch_failed",
     names |-> <<failed[1].query>>,
     details |-> <<failed[1]>>]

\* The UserException of a failed pool batch.
BatchFailedError(failed) ==
    [kind |-> "batch_failed",
     names |-> [i \in DOMAIN failed |-> failed[i].query],
     details |-> failed]

\* Mutant of PoolBatchEnd: the batch returns once every work item was taken,
\* without waiting for the running ones.
PoolBatchEndEarly ==
    /\ pc = "pool"
    /\ pending = <<>>
    /\ failed_queries = <<>>
    /\ BatchDone(local_times)
    /\ UNCHANGED <<calls, sync_action, catalogVars, planVars, fut, k, poolVars, connVars>>

\* Mutant of PoolBatchEnd: a failed batch reports the durations of its
\* queries that succeeded before it raises.
PoolBatchEndPartial ==
    /\ pc = "pool"
    /\ completed = NamesOf(CurBatch)
    /\ IF failed_queries # <<>>
       THEN /\ fut' = IF Cardinality(completed) < Len(CurBatch)
                      THEN CancelRemainingFutures(fut, CurBatch, completed)
                      ELSE fut
            /\ error' = BatchFailedError(failed_queries)
            /\ pc' = "aborted"
            /\ query_times' = query_times \o local_times
            /\ UNCHANGED <<plan, log, pos, batch_times>>
       ELSE /\ BatchDone(local_times)
            /\ UNCHANGED <<planVars, fut>>
    /\ UNCHANGED <<calls, sync_action, catalogVars, k, poolVars, connVars>>

\* After the as_completed loop: raise if a query failed, else return.
PoolBatchEnd ==
    /\ pc = "pool"
    /\ completed = NamesOf(CurBatch)
    /\ IF failed_queries # <<>>
       THEN /\ fut' = IF Cardinality(completed) < Len(CurBatch)
                      THEN CancelRemainingFutures(fut, CurBatch, completed)
                      ELSE fut
            /\ error' = BatchFailedError(failed_queries)
            /\ pc' = "aborted"
            /\ UNCHANGED <<plan, log, pos, statVars>>
       ELSE /\ BatchDone(local_times)
            /\ UNCHANGED <<planVars, fut>>
    /\ UNCHANGED <<calls, sync_action, catalogVars, k, poolVars, connVars>>

\* Mutant of ReturnStats: the catalog is emptied when execute returns.
ReturnStatsClearing ==
    /\ pc = "next_batch"
    /\ pos[1] > Len(plan)
    /\ pc' = "done"
    /\ queries' = <<>>
    /\ UNCHANGED <<calls, sync_action, max_workers, config, planVars, pos, k, fut,
                   poolVars, statVars, connVars>>

\* Both loops are exhausted: execute returns the statistics.
ReturnStats ==
    /\ pc = "next_batch"
    /\ pos[1] > Len(plan)
    /\ pc' = "done"
    /\ UNCHANGED <<calls, sync_action, catalogVars, planVars, pos, k, fut, poolVars, statVars,
                   connVars>>

Init == InitCommon /\ max_workers \in 1 .. MaxWorkers

Next ==
    \/ AddQueryExec
    \/ ExecuteStart
    \/ BeginSequential
    \/ SeqFinishOk
    \/ SeqFinishFail
    \/ BeginPool
    \/ PoolStart
    \/ PoolFinishOk
    \/ PoolFinishFail
    \/ PoolCollect
    \/ PoolBatchEnd
    \/ ReturnStats

Spec == Init /\ [][Next]_vars

\* The steps of the pool's threads and of the as_completed loop.
PoolStep ==
    PoolStart \/ PoolFinishOk \/ PoolFinishFail \/ PoolCollect \/ PoolBatchEnd

\* The worker threads and the calling thread are scheduled and every engine
\* call returns: a pool batch that can take a step takes one.
SpecFair == Spec /\ WF_vars(PoolStep)

\* The steps of a run of execute after the plan is built.
RunStep ==
    BeginSequential \/ SeqFinishOk \/ SeqFinishFail \/ BeginPool \/ PoolStep
        \/ ReturnStats

\* Every engine call returns and every thread, the calling one included, is
\* scheduled: a run that can take a step takes one.
SpecRun == Spec /\ WF_vars(RunStep)

(* A later call of execute on the same orchestrator. *)
\* Calls of execute made on one orchestrator.
MaxCalls == 2

\* Mutant of ExecuteAgain: the statistics of the earlier call are kept.
ExecuteAgainKeeping ==
    /\ pc \in {"done", "aborted"}
    /\ calls < MaxCalls
    /\ LET r == BuildBlockExecutionPlan(queries) IN
       /\ plan' = IF r.ok THEN r.blocks ELSE NoPlan
       /\ error' = r.error
       /\ log' = r.log
       /\ pc' = IF r.ok THEN "next_batch" ELSE "aborted"
       /\ pos' = IF r.ok THEN FirstBatchFrom(r.blocks, 1) ELSE pos
    /\ fut' = [n \in NamesOf(queries) |-> NoFuture]
    /\ thread_of' = [n \in NamesOf(queries) |-> NoThread]
    /\ calls' = calls + 1
    /\ UNCHANGED <<sync_action, catalogVars, k, poolVars, statVars,
                   thread_local_storage, open_connections>>

\* execute is called again after an earlier call has returned or raised:
\* the statistics are cleared and the plan is built anew.
ExecuteAgain ==
    /\ pc \in {"done", "aborted"}
    /\ calls < MaxCalls
    /\ LET r == BuildBlockExecutionPlan(queries) IN
       /\ plan' = IF r.ok THEN r.blocks ELSE NoPlan
       /\ error' = r.error
       /\ log' = r.log
       /\ pc' = IF r.ok THEN "next_batch" ELSE "aborted"
       /\ pos' = IF r.ok THEN FirstBatchFrom(r.blocks, 1) ELSE pos
    /\ fut' = [n \in NamesOf(queries) |-> NoFuture]
    /\ thread_of' = [n \in NamesOf(queries) |-> NoThread]
    /\ query_times' = <<>>
    /\ batch_times' = <<>>
    /\ calls' = calls + 1
    /\ UNCHANGED <<sync_action, catalogVars, k, poolVars, thread_local_storage,
                   open_connections>>

NextReuse == Next \/ ExecuteAgain

\* The executor with an orchestrator that is used for more than one run.
SpecReuse == Init /\ [][NextReuse]_vars

(* ------------------------ properties of the plan ---------------------- *)
\* Where the returned plan holds queries: <<block, batch, slot>> triples.
Slots ==
    {<<i, j, m>> \in (DOMAIN plan) \X (1 .. Len(queries)) \X (1 .. Len(queries)) :
        /\ j \in DOMAIN plan[i].batches
        /\ m \in DOMAIN plan[i].batches[j]}

At(s) == plan[s[1]].batches[s[2]][s[3]]

PlanReturned == pc \in {"planned", "next_batch", "seq", "pool", "done"}

UniqueNames(qs) == \A x, y \in DOMAIN qs : qs[x].name = qs[y].name => x = y

\* Block.total_queries
RECURSIVE BlockTotalQueries(_, _)
BlockTotalQueries(batches, j) ==
    IF j > Len(batches) THEN 0
    ELSE Len(batches[j]) + BlockTotalQueries(batches, j + 1)

\* ExecutionPlan.total_queries
RECURSIVE TotalQueries(_, _)
TotalQueries(blocks, i) ==
    IF i > Len(blocks) THEN 0
    ELSE BlockTotalQueries(blocks[i].batches, 1) + TotalQueries(blocks, i + 1)

\* C1: in a returned plan, a query of a block that writes a table is in a
\* strictly earlier batch than every other query of the block that reads
\* the table, whoever else writes the table.
C1_TopologicalValidity ==
    PlanReturned =>
        \A s1, s2 \in Slots :
            (/\ s1[1] = s2[1]
             /\ At(s1) # At(s2)
             /\ At(s1).outputs \cap At(s2).dependencies # {})
            => s1[2] < s2[2]

\* C2: with unique names, every query of the catalog is in exactly one slot
\* of the returned plan, in the block that carries its block name; the plan
\* holds nothing else; total_queries is the size of the catalog.
C2_EveryQueryExactlyOnce ==
    (PlanReturned /\ UniqueNames(queries)) =>
        LET slots == Slots IN
        /\ \A x \in DOMAIN queries :
              /\ Cardinality({s \in slots : At(s) = queries[x]}) = 1
              /\ \A s \in slots :
                    At(s) = queries[x] => plan[s[1]].name = queries[x].block_name
        /\ \A s \in slots : \E x \in DOMAIN queries : At(s) = queries[x]
        /\ \A i1, i2 \in DOMAIN plan : plan[i1].name = plan[i2].name => i1 = i2
        /\ TotalQueries(plan, 1) = Len(queries)

\* C2 witness: a returned plan of three queries spread over two blocks, one
\* block with two batches.
C2_Witness ==
    /\ pc = "planned"
    /\ Len(queries) = 3
    /\ Len(plan) = 2
    /\ \E i \in DOMAIN plan : Len(plan[i].batches) = 2

\* C9: a catalog with two queries of one block that read each other's
\* output makes the build fail with the cycle error, which lists both.
C9_MutualDependencyRaises ==
    (pc \in {"planned", "aborted"}) =>
        \A a, b \in DOMAIN queries :
            (/\ a # b
             /\ queries[a].block_name = queries[b].block_name
             /\ queries[a].dependencies \cap queries[b].outputs # {}
             /\ queries[b].dependencies \cap queries[a].outputs # {})
            => /\ pc = "aborted"
               /\ error.kind = "circular"
               /\ \E x, y \in DOMAIN error.names :
                     /\ error.names[x] = queries[a].name
                     /\ error.names[y] = queries[b].name

\* The names of a block that Kahn batching can never place: the largest set
\* of names each of which has an edge of the local graph from a member.
Unplaceable(bq) ==
    LET g == LocalGraph(bq, Producers(queries))
        Closed(S) == \A b \in S : \E a \in S : g[<<a, b>>] > 0
    IN UNION {S \in SUBSET NamesOf(bq) : Closed(S)}

\* The first block, in plan order, that cannot be fully ordered.
FailingBlock ==
    LET order == BlockOrder(queries, 1, <<>>)
        bad == {i \in DOMAIN order : Unplaceable(BlockQueries(queries, order[i])) # {}}
    IN IF bad = {} THEN <<>>
       ELSE BlockQueries(queries, order[CHOOSE i \in bad : \A j \in bad : i <= j])

CycleRaised == pc = "aborted" /\ error.kind = "circular"

\* C10 as stated: the cycle error carries every unplaced query of the
\* failing block together with that query's dependencies.
C10_ErrorCarriesDependencies ==
    CycleRaised =>
        LET fb == FailingBlock
            unplaced == Unplaceable(fb)
        IN \A x \in DOMAIN fb :
              fb[x].name \in unplaced =>
                 /\ \E y \in DOMAIN error.names : error.names[y] = fb[x].name
                 /\ \E y \in DOMAIN error.details :
                       /\ error.details[y].query = fb[x].name
                       /\ error.details[y].depends_on = fb[x].dependencies

\* C10 amended: the cycle error carries the name of every unplaced query of
\* the failing block, each once and nothing else; the dependencies of each
\* of them go to the error log, one line per query, not into the error.
C10_ErrorNamesLogDependencies ==
    CycleRaised =>
        LET fb == FailingBlock
            unplaced == Unplaceable(fb)
        IN /\ {error.names[y] : y \in DOMAIN error.names} = unplaced
           /\ Len(error.names) = Cardinality(unplaced)
           /\ unplaced # {}
           /\ error.details = <<>>
           /\ Len(log) = Len(error.names)
           /\ \A x \in DOMAIN fb :
                 fb[x].name \in unplaced =>
                    \E y \in DOMAIN log :
                       /\ log[y].query = fb[x].name
                       /\ log[y].depends_on = fb[x].dependencies

\* C10 witness: a cycle error that names two of the three queries of the
\* catalog, both with dependencies.
C10_Witness ==
    /\ CycleRaised
    /\ Len(error.names) = 2
    /\ Len(queries) = 3
    /\ \A y \in DOMAIN log : log[y].depends_on # {}

(* ---------------------- properties of the executor -------------------- *)
\* <<block, batch>> of the query named n in the plan.
PosOf(n) ==
    LET s == CHOOSE s \in Slots : At(s).name = n IN <<s[1], s[2]>>

Before(p, q) == p[1] < q[1] \/ (p[1] = q[1] /\ p[2] < q[2])

\* _execute_query was entered for the query named n.
HasStarted(n) == fut[n].state \in {"running", "ok", "failed"}

FailedNames == {n \in DOMAIN fut : fut[n].state = "failed"}

QueryNamed(n) == queries[CHOOSE x \in DOMAIN queries : queries[x].name = n]

InBatch == pc \in {"seq", "pool"}

\* C3: a query has started only if every query of every batch before its
\* own, in plan order, has completed successfully.
C3_StartsAfterEarlierBatches ==
    \A m \in DOMAIN fut :
        HasStarted(m) =>
            \A n \in DOMAIN fut :
                Before(PosOf(n), PosOf(m)) => fut[n].state = "ok"

\* C3 witness: a query of the second block is running after a first block
\* whose batch of two went through the pool.
C3_Witness ==
    /\ InBatch
    /\ pos = <<2, 1>>
    /\ Len(plan[1].batches[1]) = 2
    /\ max_workers = 2
    /\ Running # {}

\* C4: in a pool batch, once a query of the batch has failed, no query of
\* the batch that is still waiting for a thread is started.
C4_FailFastInBatch ==
    [][(pc = "pool" /\ FailedNames # {}) =>
          \A m \in DOMAIN fut :
              fut[m].state = "pending" => fut'[m].state \in {"pending", "cancelled"}]_vars

\* Once a query has failed, every query of a later batch or block is still
\* unstarted, and execute has neither returned nor moved on: it is draining
\* the pool batch of the failed query, or it has raised.
NoLaterDispatch ==
    \A n \in FailedNames :
        /\ \A m \in DOMAIN fut : Before(PosOf(n), PosOf(m)) => fut[m].state = "new"
        /\ pc \in {"pool", "aborted"}
        /\ pc = "pool" => PosOf(n) = pos
        /\ pc = "aborted" => error.kind \in {"query_failed", "batch_failed"}

Raised == pc = "aborted" /\ error.kind \in {"query_failed", "batch_failed"}

\* C5: once a query of a batch has failed, no query of a later batch or of
\* a later block is ever dispatched, and execute ends by raising an error.
C5_NoDispatchAfterFailure ==
    /\ []NoLaterDispatch
    /\ (FailedNames # {}) ~> Raised

\* C5 witness: execute has raised for a failure in the first batch of a
\* block while a later batch of the block and a later block are untouched.
C5_Witness ==
    /\ pc = "aborted"
    /\ Len(plan) = 2
    /\ Len(plan[1].batches) = 2
    /\ \E n \in FailedNames : PosOf(n) = <<1, 1>>

\* C6: two queries never run at the same time when one writes a table the
\* other reads.
C6_NoConcurrentProducerConsumer ==
    \A n, m \in Running :
        n # m => QueryNamed(n).outputs \cap QueryNamed(m).dependencies = {}

\* C7: when execute has raised for a failed batch, no query is running and
\* the one error names exactly the queries of that batch that failed, each
\* with its error text.
C7_ErrorNamesEveryFailure ==
    (pc = "aborted" /\ error.kind \in {"query_failed", "batch_failed"}) =>
        /\ Running = {}
        /\ FailedNames # {}
        /\ FailedNames \subseteq NamesOf(CurBatch)
        /\ {error.details[i] : i \in DOMAIN error.details}
              = {[query |-> n, text |-> fut[n].exc] : n \in FailedNames}
        /\ Len(error.details) = Cardinality(FailedNames)
        /\ error.names = [i \in DOMAIN error.details |-> error.details[i].query]

\* C7 witness: a pool batch of three in which two queries failed, with
\* different error texts, and one succeeded.
C7_Witness ==
    /\ pc = "aborted"
    /\ Len(error.details) = 2
    /\ error.details[1].text # error.details[2].text
    /\ Len(CurBatch) = 3
    /\ \E n \in DOMAIN fut : fut[n].state = "ok"

\* C8: the queries running at any moment all belong to the batch being
\* executed and number at most min(max_workers, size of that batch); none
\* runs outside a batch.
C8_BoundedConcurrency ==
    IF InBatch
    THEN /\ Running \subseteq NamesOf(CurBatch)
         /\ Cardinality(Running) <= Min(max_workers, Len(CurBatch))
    ELSE Running = {}

\* C8 witness: two workers busy on a batch of three, the third query waiting.
C8_Witness ==
    /\ pc = "pool"
    /\ Cardinality(Running) = 2
    /\ max_workers = 2
    /\ Len(CurBatch) = 3
    /\ pending # <<>>

(* --------------------- properties of the connections ------------------ *)
\* The connection the query named n is using: the one stored for its thread.
ConnectionOf(n) == thread_local_storage[thread_of[n]]

ConnectionsApart ==
    /\ \A n, m \in Running :
          n # m => /\ thread_of[n] # thread_of[m]
                   /\ ConnectionOf(n).id # ConnectionOf(m).id
    /\ \A n \in Running :
          /\ ConnectionOf(n).id \in open_connections
          /\ ConnectionOf(n).database = MainDbPath

\* A query that keeps running keeps its thread and its connection.
ConnectionKept ==
    \A n \in Running :
        fut'[n].state = "running" =>
            /\ thread_of'[n] = thread_of[n]
            /\ thread_local_storage'[thread_of[n]] = ConnectionOf(n)

\* C12: no connection is used by two concurrently running queries: each
\* running query uses the connection of its own thread, the same one for as
\* long as it runs, and every connection is bound to the main database.
C12_NoSharedConnection ==
    /\ []ConnectionsApart
    /\ [][ConnectionKept]_vars

\* C12 witness: two queries of a pool batch run at the same time, each with
\* its own open connection.
C12_Witness ==
    /\ pc = "pool"
    /\ Cardinality(Running) = 2
    /\ Cardinality(open_connections) = 2
    /\ \A n \in Running : ConnectionOf(n).database = MainDbPath

(* ------------------- further properties of the plan ------------------- *)
\* build_block_execution_plan has been called and has returned or raised.
BuildCalled == pc \in {"planned", "aborted"}

Max(S) == CHOOSE x \in S : \A y \in S : y <= x

\* Catalog positions of the queries that write table t.
Writers(t) == {x \in DOMAIN queries : t \in queries[x].outputs}

\* Those of them that the producer loop classifies as INSERT: the elif branch,
\* taken when the text has INSERT and has no CREATE.
InsertWriters(t) ==
    {x \in Writers(t) : HasInsert(queries[x]) /\ ~HasCreate(queries[x])}

\* C14: the producer map has one entry per written table: the last
\* INSERT-classified query of the catalog that writes the table if there is
\* one, wherever the CREATE queries for the table are, else the last query
\* of the catalog that writes it; a table nobody writes has no entry.
C14_ProducerMap ==
    BuildCalled =>
        LET producers == Producers(queries) IN
        \A t \in AllTables :
            producers[t] =
                IF Writers(t) = {} THEN NoQuery
                ELSE IF InsertWriters(t) # {} THEN queries[Max(InsertWriters(t))]
                ELSE queries[Max(Writers(t))]

\* C14 witness: a plan was built from a catalog in which a table is written
\* by two INSERT queries and then by a later CREATE query.
C14_Witness ==
    /\ pc = "planned"
    /\ \E t \in AllTables :
          /\ Cardinality(InsertWriters(t)) = 2
          /\ \E x \in Writers(t) :
                /\ HasCreate(queries[x])
                /\ x > Max(InsertWriters(t))

\* C16: a block that holds exactly one query is ordered without error into
\* a single batch holding that query, whatever the query reads and writes
\* and whatever keywords its text has.
C16_SingleQueryBlock ==
    BuildCalled =>
        LET order == BlockOrder(queries, 1, <<>>)
            producers == Producers(queries) IN
        \A i \in DOMAIN order :
            LET bq == BlockQueries(queries, order[i])
                r == CreateParallelBatchesForBlock(bq, producers) IN
            Len(bq) = 1 => (r.ok /\ r.batches = << <<bq[1]>> >>)

(* ------------- properties of the catalog and of its plans ------------- *)
\* A plan is in hand: the last call of build_block_execution_plan returned.
PlanInHand == pc \in {"planned", "replanned"}

\* C13: in a returned plan, a query whose text has CREATE is in a strictly
\* earlier batch than every other query of its block whose text has INSERT
\* and that writes one of the tables it writes.
C13_CreateBeforeInsert ==
    PlanInHand =>
        LET slots == Slots IN
        \A s1, s2 \in slots :
            (/\ s1[1] = s2[1]
             /\ At(s1) # At(s2)
             /\ HasCreate(At(s1))
             /\ HasInsert(At(s2))
             /\ At(s1).outputs \cap At(s2).outputs # {})
            => s1[2] < s2[2]

\* The catalog with table d taken out of the dependencies of its x-th query.
WithoutDependency(qs, x, d) ==
    [qs EXCEPT ![x].dependencies = @ \ {d}]

\* <<block, batch>> positions of the query q in a list of planned blocks.
PlacesOf(blocks, q) ==
    {<<i, j>> \in (DOMAIN blocks) \X (1 .. Len(queries)) :
        /\ j \in DOMAIN blocks[i].batches
        /\ \E m \in DOMAIN blocks[i].batches[j] : blocks[i].batches[j][m] = q}

BlockIndex(order, b) == CHOOSE i \in DOMAIN order : order[i] = b

\* C15: when a query reads a table whose producer is a query of an earlier
\* block, the build has the outcome, and the query the batch, that it has
\* without that dependency.
C15_CrossBlockNoEdge ==
    BuildCalled =>
        LET producers == Producers(queries)
            order == BlockOrder(queries, 1, <<>>)
            with == BuildBlockExecutionPlan(queries) IN
        \A x \in DOMAIN queries :
            \A d \in queries[x].dependencies :
                (/\ producers[d] # NoQuery
                 /\ BlockIndex(order, producers[d].block_name)
                       < BlockIndex(order, queries[x].block_name))
                => LET qs == WithoutDependency(queries, x, d)
                       without == BuildBlockExecutionPlan(qs) IN
                   /\ with.ok = without.ok
                   /\ with.ok =>
                         PlacesOf(with.blocks, queries[x]) = PlacesOf(without.blocks, qs[x])

\* C17: no two queries of the catalog have the same name.
C17_UniqueQueryNames == UniqueNames(queries)

\* The scripts of the blocks structure: <<block, code, script>> positions.
ScriptSlots ==
    {s \in (DOMAIN config) \X (1 .. MaxCfgCodes + 1) \X (1 .. MaxCfgScripts + 1) :
        /\ s[2] \in DOMAIN config[s[1]].codes
        /\ s[3] \in DOMAIN config[s[1]].codes[s[2]].script}

SlotBefore(s, t) ==
    \/ s[1] < t[1]
    \/ s[1] = t[1] /\ s[2] < t[2]
    \/ s[1] = t[1] /\ s[2] = t[2] /\ s[3] < t[3]

\* '_<i>' for the script at 0-based position i.
IndexSuffix == <<"_0", "_1", "_2", "_3", "_4">>

\* What one call of add_queries_from_blocks has to append for the script at
\* slot s: where, under which name, with which block and code name.
NamedAsSpecified(new, s) ==
    LET block == config[s[1]]
        code == block.codes[s[2]]
        q == new[Cardinality({t \in ScriptSlots : SlotBefore(t, s)}) + 1]
    IN /\ q.name = IF Len(code.script) = 1 THEN code.name
                   ELSE code.name \o IndexSuffix[s[3]]
       /\ q.block_name = block.name
       /\ q.code_name = code.name
       /\ q.sql = SqlText(code.script[s[3]], 1)

\* C18: a call of add_queries_from_blocks keeps the queries the catalog has
\* and appends one query per script, in block, code, script order; the
\* query of the only script of a code has the code's name, the query of the
\* script at 0-based position i of a code with several scripts has the
\* code's name followed by '_' and i; each has its block's and code's name.
C18_QueryNaming ==
    [][queries' # queries =>
          LET new == SubSeq(queries', Len(queries) + 1, Len(queries')) IN
          /\ SubSeq(queries', 1, Len(queries)) = queries
          /\ Len(new) = Cardinality(ScriptSlots)
          /\ \A s \in ScriptSlots : NamedAsSpecified(new, s)]_vars

\* C18 witness: the catalog holds the two queries of a code with two scripts
\* and then the query of a code with one script, in another block.
C18_Witness ==
    /\ Len(queries) = 3
    /\ queries[1].name = "a_0"
    /\ queries[2].name = "a_1"
    /\ queries[3].name = "a"
    /\ queries[3].block_name # queries[1].block_name

Ended == pc \in {"done", "aborted"}

\* The plan was built and every query in it has run and succeeded.
PlanRanOk ==
    /\ error.kind # "circular"
    /\ \A s \in Slots : fut[At(s).name].state = "ok"

\* A run ends in Done exactly when every query of the plan succeeded; Done
\* carries no error and Aborted carries one.
EndsRight ==
    Ended =>
        /\ pc = "done" <=> PlanRanOk
        /\ pc = "done" <=> error = NoError

\* The life of a query: not yet dispatched, waiting in the pool, running,
\* then succeeded or failed for good; it is running at most once.
NoRetry ==
    \A n \in DOMAIN fut :
        /\ fut[n].state \in {"ok", "failed", "cancelled"} => fut'[n] = fut[n]
        /\ fut[n].state = "running" => fut'[n].state \in {"running", "ok", "failed"}
        /\ fut[n].state = "pending" => fut'[n].state \in {"pending", "running", "cancelled"}

\* C19: every run of execute ends, in Done or in Aborted; it ends in Done
\* exactly when every query of the plan ran and succeeded; no query is
\* executed a second time.
C19_RunEnds ==
    /\ []EndsRight
    /\ [][NoRetry]_vars
    /\ (pc # "idle") ~> Ended

\* C19 witness: a run has ended in Done after three queries in two batches,
\* one of them run by the pool.
C19_Witness ==
    /\ pc = "done"
    /\ Len(queries) = 3
    /\ Len(batch_times) = 2
    /\ max_workers = 2
    /\ \A n \in DOMAIN fut : fut[n].state = "ok"

(* ------------------------ properties of batching ---------------------- *)
\* The catalog with table d put into the dependencies of its x-th query.
WithDependency(qs, x, d) ==
    [qs EXCEPT ![x].dependencies = @ \cup {d}]

\* A list of planned blocks as names: per block its name and, per batch, the
\* names of the queries in batch order.
PlanShape(blocks) ==
    [i \in DOMAIN blocks |->
        [name |-> blocks[i].name,
         batches |-> [j \in DOMAIN blocks[i].batches |->
                        [m \in DOMAIN blocks[i].batches[j] |->
                            blocks[i].batches[j][m].name]]]]

\* The local graphs of the blocks of a catalog, in plan order.
LocalGraphs(qs) ==
    LET order == BlockOrder(qs, 1, <<>>)
    IN [i \in DOMAIN order |-> LocalGraph(BlockQueries(qs, order[i]), Producers(qs))]

\* Two catalogs are planned alike: the same edges, the same outcome, the
\* same blocks and batches of the same query names, the same error.
PlannedAlike(qs1, qs2) ==
    LET r1 == BuildBlockExecutionPlan(qs1)
        r2 == BuildBlockExecutionPlan(qs2)
    IN /\ LocalGraphs(qs1) = LocalGraphs(qs2)
       /\ r1.ok = r2.ok
       /\ PlanShape(r1.blocks) = PlanShape(r2.blocks)
       /\ r1.error = r2.error

\* C21: for a table that no query of the catalog writes, the catalog with
\* the table added to the dependencies of a query and the catalog with the
\* table removed from them are planned alike, and as the catalog in hand
\* was: no edge and no batch depends on such a table.
C21_ExternalDependencyIgnored ==
    BuildCalled =>
        \A x \in DOMAIN queries :
            \A d \in AllTables :
                Writers(d) = {} =>
                    /\ PlannedAlike(WithDependency(queries, x, d),
                                    WithoutDependency(queries, x, d))
                    /\ pc = "planned" =>
                          PlanShape(plan) =
                             PlanShape(BuildBlockExecutionPlan(
                                           WithoutDependency(queries, x, d)).blocks)

\* C21 witness: a plan of three queries with two batches in a block was
\* built, and one of the queries reads a table that no query writes.
C21_Witness ==
    /\ pc = "planned"
    /\ Len(queries) = 3
    /\ \E i \in DOMAIN plan : Len(plan[i].batches) = 2
    /\ \E x \in DOMAIN queries :
          \E d \in queries[x].dependencies : Writers(d) = {}


\* No block-local edge among the queries of a block: none of them reads a
\* table whose producer is another of them, and none of them has INSERT in
\* its text and writes a table that another of them, with CREATE in its
\* text, writes.
NoEdgeAmong(bq, producers) ==
    \A x, y \in DOMAIN bq :
        x # y =>
            /\ \A d \in bq[y].dependencies : producers[d] # bq[x]
            /\ ~(/\ HasCreate(bq[x])
                 /\ HasInsert(bq[y])
                 /\ bq[x].outputs \cap bq[y].outputs # {})

\* C22: the queries of a block with no block-local edge among them are
\* ordered without error into exactly one batch, which holds all of them.
C22_IndependentQueriesOneBatch ==
    BuildCalled =>
        LET order == BlockOrder(queries, 1, <<>>)
            producers == Producers(queries) IN
        \A i \in DOMAIN order :
            LET bq == BlockQueries(queries, order[i])
                r == CreateParallelBatchesForBlock(bq, producers) IN
            NoEdgeAmong(bq, producers) =>
                /\ r.ok
                /\ Len(r.batches) = 1
                /\ {r.batches[1][m] : m \in DOMAIN r.batches[1]} =
                      {bq[x] : x \in DOMAIN bq}
                /\ Len(r.batches[1]) = Len(bq)


\* The queries of the catalog that are in the block of query q.
BlockOf(q) == BlockQueries(queries, q.block_name)

\* Query q has no block-local dependent: no other query of its block reads
\* a table whose producer is q, and none with INSERT in its text writes a
\* table whose last creator in the block is q.
NoDependents(q) ==
    LET bq == BlockOf(q)
        producers == Producers(queries)
        tc == TableCreators(bq) IN
    \A y \in DOMAIN bq :
        bq[y] # q =>
            /\ \A d \in bq[y].dependencies : producers[d] # q
            /\ ~(HasInsert(bq[y]) /\ \E o \in bq[y].outputs : tc[o] = q)

\* C23 as stated: in a returned plan, a query with no dependencies and no
\* block-local dependents is the only member of its batch.
C23_SingletonBatch ==
    pc = "planned" =>
        LET slots == Slots IN
        \A s \in slots :
            (At(s).dependencies = {} /\ NoDependents(At(s)))
            => Len(plan[s[1]].batches[s[2]]) = 1

\* Query q has nothing to wait for: it has no dependencies, and it is not a
\* query with INSERT in its text that writes a table which a query of its
\* block with CREATE in its text writes.
NothingToWaitFor(q) ==
    /\ q.dependencies = {}
    /\ ~(HasInsert(q) /\ \E o \in q.outputs : TableCreators(BlockOf(q))[o] # NoQuery)

\* The queries of the block of q that go by the name of q (q itself, and no
\* other when names are unique).
Namesakes(q) ==
    LET bq == BlockOf(q) IN {bq[y] : y \in {z \in DOMAIN bq : bq[z].name = q.name}}

\* C23 amended: in a returned plan, a query that has nothing to wait for
\* (as has none of its namesakes) is in the first batch of its block,
\* whether or not it has dependents, and so shares that batch with every
\* other such query of the block; it is the only member of its batch when
\* it is the only query of its block.
C23_FirstBatchShared ==
    pc = "planned" =>
        LET slots == Slots IN
        \A s \in slots :
            /\ (\A n \in Namesakes(At(s)) : NothingToWaitFor(n)) => s[2] = 1
            /\ Len(BlockOf(At(s))) = 1 => Len(plan[s[1]].batches[s[2]]) = 1

\* C23 witness: a returned plan whose first batch holds two queries with no
\* dependencies and no dependents, next to a block of a single query.
C23_Witness ==
    /\ pc = "planned"
    /\ Len(plan) = 2
    /\ \E s1, s2 \in Slots :
          /\ s1[1] = s2[1] /\ s1[2] = 1 /\ s2[2] = 1 /\ s1[3] # s2[3]
          /\ At(s1).dependencies = {} /\ NoDependents(At(s1))
          /\ At(s2).dependencies = {} /\ NoDependents(At(s2))
    /\ \E i \in DOMAIN plan : BlockTotalQueries(plan[i].batches, 1) = 1


\* The queries bq, in their order, are a chain: the first reads only tables
\* that no query of the catalog writes, and each later one reads exactly the
\* one table that its predecessor writes, with CREATE in its text, and that
\* no other query writes.
IsChain(bq) ==
    /\ bq # <<>>
    /\ \A d \in bq[1].dependencies : Writers(d) = {}
    /\ \A i \in 2 .. Len(bq) :
          \E t \in AllTables :
              /\ bq[i - 1].outputs = {t}
              /\ HasCreate(bq[i - 1])
              /\ bq[i].dependencies = {t}
              /\ \A x \in Writers(t) : queries[x] = bq[i - 1]

\* ExecutionPlan.total_batches
RECURSIVE TotalBatches(_, _)
TotalBatches(blocks, i) ==
    IF i > Len(blocks) THEN 0
    ELSE Len(blocks[i].batches) + TotalBatches(blocks, i + 1)

\* C24: a block whose k queries are a chain is ordered without error into k
\* batches of one query each, in chain order; when the catalog is that block
\* followed by a block of one query that reads the table the last query of
\* the chain writes, the plan has k + 1 batches in all.
C24_ChainPlan ==
    BuildCalled =>
        LET order == BlockOrder(queries, 1, <<>>)
            producers == Producers(queries)
            chain == BlockQueries(queries, order[1]) IN
        /\ \A i \in DOMAIN order :
              LET bq == BlockQueries(queries, order[i])
                  r == CreateParallelBatchesForBlock(bq, producers) IN
              IsChain(bq) =>
                  /\ r.ok
                  /\ r.batches = [j \in DOMAIN bq |-> <<bq[j]>>]
        /\ (/\ Len(order) = 2
            /\ IsChain(chain)
            /\ HasCreate(chain[Len(chain)])
            /\ Len(BlockQueries(queries, order[2])) = 1
            /\ Len(queries) = Len(chain) + 1
            /\ \E t \in AllTables :
                  /\ chain[Len(chain)].outputs = {t}
                  /\ queries[Len(queries)].dependencies = {t}
                  /\ \A x \in Writers(t) : queries[x] = chain[Len(chain)])
           => /\ pc = "planned"
              /\ TotalBatches(plan, 1) = Len(chain) + 1


(* --------------------- properties of the plan's shape ----------------- *)
\* Catalog position of the first query of block b.
FirstSeen(b) ==
    CHOOSE x \in DOMAIN queries :
        /\ queries[x].block_name = b
        /\ \A y \in DOMAIN queries : queries[y].block_name = b => x <= y

\* C30: a returned plan has one block per block name of the catalog, in the
\* order in which the names first occur in the catalog; every block of the
\* plan has a batch and every batch has a query; the plan of the empty
\* catalog is returned and has no block.
C30_PlanShape ==
    /\ (BuildCalled /\ queries = <<>>) => (pc = "planned" /\ plan = <<>>)
    /\ pc = "planned" =>
          /\ {plan[i].name : i \in DOMAIN plan} =
                {queries[x].block_name : x \in DOMAIN queries}
          /\ \A i, j \in DOMAIN plan :
                i < j => FirstSeen(plan[i].name) < FirstSeen(plan[j].name)
          /\ \A i \in DOMAIN plan :
                /\ plan[i].batches # <<>>
                /\ \A j \in DOMAIN plan[i].batches : plan[i].batches[j] # <<>>

\* C30 witness: a returned plan of two blocks for a catalog in which a query
\* of the first block comes after the query of the second.
C30_Witness ==
    /\ pc = "planned"
    /\ Len(plan) = 2
    /\ Len(queries) = 3
    /\ queries[2].block_name # queries[1].block_name
    /\ queries[3].block_name = queries[1].block_name


(* ------------------- properties of the statistics --------------------- *)
\* execute has raised out of a batch: the batch at pos is the failing one.
FailedInBatch == pc = "aborted" /\ error.kind \in {"query_failed", "batch_failed"}

\* <<block, batch>> positions of the plan before position p, in plan order.
BatchesBefore(p) ==
    {b \in (DOMAIN plan) \X (1 .. Len(queries)) :
        /\ b[2] \in DOMAIN plan[b[1]].batches
        /\ (b[1] < p[1] \/ (b[1] = p[1] /\ b[2] < p[2]))}

\* C29: when execute has raised out of a batch, batch_times has one entry
\* per batch before the failing one, in plan order, and query_times has one
\* entry per query of those batches and none for a query of the failing
\* batch or of a later one.
C29_StatsOfCompletedBatches ==
    FailedInBatch =>
        LET before == BatchesBefore(pos)
            ran == {s \in Slots : <<s[1], s[2]>> \in before} IN
        /\ Len(batch_times) = Cardinality(before)
        /\ {batch_times[i] : i \in DOMAIN batch_times} = before
        /\ \A i, j \in DOMAIN batch_times :
              i < j => batch_times[i] \in BatchesBefore(batch_times[j])
        /\ Len(query_times) = Cardinality(ran)
        /\ {query_times[i] : i \in DOMAIN query_times} = {At(s).name : s \in ran}
        /\ \A m \in DOMAIN CurBatch :
              \A i \in DOMAIN query_times : query_times[i] # CurBatch[m].name

\* C29 witness: execute has raised out of a pool batch in which one query
\* failed and another succeeded, after one batch had completed.
C29_Witness ==
    /\ pc = "aborted"
    /\ error.kind = "batch_failed"
    /\ Len(batch_times) = 1
    /\ Len(query_times) = 1
    /\ \E n \in NamesOf(CurBatch) : fut[n].state = "ok"


(* --------------------- properties of the sync actions ----------------- *)
\* The sync action of the given name has returned its result for the blocks
\* structure in config.
Reported(name) ==
    /\ pc = "reported"
    /\ sync_action.name = name
    /\ sync_action.iterable

\* The plan that an orchestrator loaded with the blocks structure builds.
PlanOfConfig == BuildBlockExecutionPlan(BlocksFrom(config, 1))

\* C25: for a blocks structure whose plan builds without a cycle,
\* execution_plan_visualization returns a SUCCESS result whose summary has
\* the number of scripts as Total Queries and the number of batches of the
\* plan, summed over its blocks, as Total Batches, and whose execution flow
\* starts with the first batch of the first block.
C25_PlanVisualizationSummary ==
    (Reported("execution_plan_visualization") /\ PlanOfConfig.ok) =>
        LET r == sync_action.result
            p == PlanOfConfig.blocks IN
        /\ r.type = Success
        /\ r.body.total_queries = Cardinality(ScriptSlots)
        /\ r.body.total_batches = TotalBatches(p, 1)
        /\ p # <<>> =>
              /\ r.body.flow # <<>>
              /\ r.body.flow[1].block = p[1].name
              /\ r.body.flow[1].batches # <<>>
              /\ r.body.flow[1].batches[1] = BatchNames(p[1].batches[1])


\* The script at a slot of the blocks structure.
ScriptAt(s) == config[s[1]].codes[s[2]].script[s[3]]

\* The tables that some script reads, and those that some script writes,
\* as the dependency extraction sees each script on its own.
ReadSomewhere ==
    UNION {ExtractDependenciesAndOutputs(ScriptAt(s)).dependencies : s \in ScriptSlots}
WrittenSomewhere ==
    UNION {ExtractDependenciesAndOutputs(ScriptAt(s)).outputs : s \in ScriptSlots}

\* C26: expected_input_tables, called without available tables, returns a
\* SUCCESS result that lists, each once and in sorted order, exactly the
\* tables that some script reads and no script writes, wherever in the
\* blocks structure the reading and the writing scripts are; for a blocks
\* structure without scripts it lists nothing.
C26_ExpectedInputTables ==
    (Reported("expected_input_tables") /\ ~sync_action.validate) =>
        LET r == sync_action.result IN
        /\ r.type = Success
        /\ {r.body[i] : i \in DOMAIN r.body} = ReadSomewhere \ WrittenSomewhere
        /\ \A i, j \in DOMAIN r.body : i < j => r.body[i] < r.body[j]
        /\ ScriptSlots = {} => r.body = <<>>

\* C26 witness: the action has listed one table for a blocks structure of
\* two blocks in which a script reads another table that a script of a
\* later block writes.
C26_Witness ==
    /\ Reported("expected_input_tables")
    /\ ~sync_action.validate
    /\ Len(sync_action.result.body) = 1
    /\ Len(config) = 2
    /\ \E s, t \in ScriptSlots :
          /\ s[1] < t[1]
          /\ ExtractDependenciesAndOutputs(ScriptAt(s)).dependencies
                \cap ExtractDependenciesAndOutputs(ScriptAt(t)).outputs # {}


\* The error prefix of each sync action.
PrefixOf(name) ==
    CASE name = "expected_input_tables" -> ExpectedInputTablesPrefix
      [] name = "lineage_visualization" -> LineageVisualizationPrefix
      [] name = "execution_plan_visualization" -> ExecutionPlanVisualizationPrefix

\* C28: a sync action that was called has returned a result and has raised
\* nothing to its caller; when its analysis failed (the blocks argument
\* cannot be iterated, the plan builder raised the circular-dependency
\* error, or anything else was raised) the result is of type DANGER and its
\* message is the action's error prefix followed by the text of the
\* failure.
C28_SyncActionsCatchFailures ==
    pc = "reported" =>
        LET r == sync_action.result
            cycle == /\ sync_action.name = "execution_plan_visualization"
                     /\ sync_action.iterable
                     /\ ~PlanOfConfig.ok IN
        /\ error = NoError
        /\ r.type \in {Success, Warning, Danger}
        /\ ~sync_action.iterable => r.text = NotIterableError
        /\ cycle => r.text = PlanOfConfig.error
        /\ r.text # NoError =>
              /\ r.type = Danger
              /\ r.prefix = PrefixOf(sync_action.name)
        /\ r.text = NoError => r.prefix = ""

\* C28 witness: execution_plan_visualization has returned for a blocks
\* structure whose plan has a circular dependency.
C28_Witness ==
    /\ Reported("execution_plan_visualization")
    /\ ~PlanOfConfig.ok
    /\ sync_action.result.text.kind = "circular"
    /\ sync_action.result.type = Danger


(* ------------------ properties of degraded extraction ----------------- *)
\* Position in the catalog of the query of the script at slot s, after one
\* call of add_queries_from_blocks.
SlotIndex(s) == Cardinality({t \in ScriptSlots : SlotBefore(t, s)}) + 1

\* The slots whose script does not parse.
FailingSlots == {s \in ScriptSlots : ParseFails(ScriptAt(s))}

\* Query q has no edge in the local graph of its block.
NoEdgeAt(q) ==
    LET bq == BlockOf(q)
        g == LocalGraph(bq, Producers(queries))
    IN \A n \in NamesOf(bq) : g[<<n, q.name>>] = 0 /\ g[<<q.name, n>>] = 0

\* C27: the query of a script that does not parse is in the catalog, with
\* the script's text and with empty dependencies and outputs; in a returned
\* plan it has its place, once for each time it is in the catalog, and no
\* edge of the local graph of its block starts or ends at it.
C27_DegradedQueryPlanned ==
    /\ queries # <<>> =>
          \A s \in FailingSlots :
              /\ SlotIndex(s) \in DOMAIN queries
              /\ queries[SlotIndex(s)].sql = SqlText(ScriptAt(s), 1)
              /\ queries[SlotIndex(s)].dependencies = {}
              /\ queries[SlotIndex(s)].outputs = {}
    /\ PlanInHand =>
          LET slots == Slots IN
          \A s \in FailingSlots :
              LET q == queries[SlotIndex(s)] IN
              /\ Cardinality({p \in slots : At(p) = q}) =
                    Cardinality({x \in DOMAIN queries : queries[x] = q})
              /\ NoEdgeAt(q)


(* ------------------ properties of sequential batches ------------------ *)
\* The loops of execute are at a batch: it is running, or execute has raised
\* out of it.
AtBatch == InBatch \/ Raised

\* C31: a batch for which min(max_workers, batch size) is 1 never goes
\* through the pool: its queries run one at a time on the calling thread in
\* batch order (the queries before the current one have succeeded, those
\* after it have not been started), and when a query fails the batch stops
\* there and the error names that query alone.
C31_SequentialBatch ==
    (AtBatch /\ Min(max_workers, Len(CurBatch)) = 1) =>
        /\ pc # "pool"
        /\ pending = <<>>
        /\ \A t \in Threads \ {MainThread} : Idle(t)
        /\ k \in DOMAIN CurBatch
        /\ \A m \in DOMAIN CurBatch :
              fut[CurBatch[m].name].state =
                  IF m < k THEN "ok"
                  ELSE IF m > k THEN "new"
                  ELSE IF pc = "seq" THEN "running" ELSE "failed"
        /\ pc = "seq" => thread_of[CurBatch[k].name] = MainThread
        /\ Raised =>
              /\ error.kind = "query_failed"
              /\ error.names = <<CurBatch[k].name>>
              /\ Len(error.details) = 1
              /\ error.details[1].query = CurBatch[k].name

\* C31 witness: with one worker, the second query of a batch of three has
\* failed after the first succeeded; the third was never started.
C31_Witness ==
    /\ Raised
    /\ max_workers = 1
    /\ Len(CurBatch) = 3
    /\ k = 2
    /\ fut[CurBatch[1].name].state = "ok"
    /\ fut[CurBatch[3].name].state = "new"


(* ------------------ properties of the batch a query is in ------------- *)
\* Length of the longest path of the graph g that ends at n (g has no cycle).
RECURSIVE LongestPath(_, _, _)
LongestPath(g, names, n) ==
    LET preds == {a \in names : g[<<a, n>>] > 0}
    IN IF preds = {} THEN 0
       ELSE 1 + Max({LongestPath(g, names, a) : a \in preds})

\* C32: in a returned plan the batch index of a query (counted from 0) is
\* the length of the longest path of the local graph of its block that ends
\* at it: the first batch holds exactly the queries of local in-degree zero,
\* and a query of a later batch has a predecessor in the batch just before.
C32_EarliestBatch ==
    PlanReturned =>
        \A i \in DOMAIN plan :
            LET bq == BlockQueries(queries, plan[i].name)
                names == NamesOf(bq)
                g == LocalGraph(bq, Producers(queries))
                indeg == LocalInDegree(names, g)
                batches == plan[i].batches
            IN /\ \A n \in names :
                     indeg[n] = 0 => \E m \in DOMAIN batches[1] : batches[1][m].name = n
               /\ \A j \in DOMAIN batches : \A m \in DOMAIN batches[j] :
                     LET n == batches[j][m].name IN
                     /\ j - 1 = LongestPath(g, names, n)
                     /\ (j = 1) <=> (indeg[n] = 0)
                     /\ j > 1 => \E m2 \in DOMAIN batches[j - 1] :
                                    g[<<batches[j - 1][m2].name, n>>] > 0

\* C32 witness: a returned plan of one block in which a query with two
\* predecessors, one in the first batch and one in the second, is in the
\* third batch.
C32_Witness ==
    /\ PlanReturned
    /\ Len(plan) = 1
    /\ Len(plan[1].batches) = 3
    /\ LET g == LocalGraph(queries, Producers(queries))
           n == plan[1].batches[3][1].name
       IN /\ g[<<plan[1].batches[1][1].name, n>>] > 0
          /\ g[<<plan[1].batches[2][1].name, n>>] > 0


(* ------------------------ properties of cycles ------------------------ *)
\* The graph g has a path of at least one and at most n edges from a to b.
RECURSIVE HasPath(_, _, _, _, _)
HasPath(g, names, a, b, n) ==
    /\ n > 0
    /\ \/ g[<<a, b>>] > 0
       \/ \E c \in names : g[<<a, c>>] > 0 /\ HasPath(g, names, c, b, n - 1)

\* The queries of the block bq that lie on a cycle of its local graph
\* (self-loops included) or can be reached from one.
OnOrAfterCycle(bq) ==
    LET names == NamesOf(bq)
        g == LocalGraph(bq, Producers(queries))
        len == Cardinality(names)
        cycle == {c \in names : HasPath(g, names, c, c, len)}
    IN {n \in names : \E c \in cycle : c = n \/ HasPath(g, names, c, n, len)}

\* C33: on every catalog build_block_execution_plan ends, by returning or
\* by raising; it raises the circular-dependency error exactly when the
\* local graph of some block has a cycle, a self-loop included; the error is
\* that of the first such block in plan order and lists, once each, exactly
\* the queries of that block that lie on a cycle or are reachable from one.
C33_CycleIffRaised ==
    /\ pc = "idle" => BuildBlockExecutionPlan(queries).ok \in BOOLEAN
    /\ BuildCalled =>
          LET order == BlockOrder(queries, 1, <<>>)
              cyclic == {i \in DOMAIN order :
                            OnOrAfterCycle(BlockQueries(queries, order[i])) # {}}
          IN /\ (pc = "aborted") <=> (cyclic # {})
             /\ pc = "aborted" =>
                   LET first == CHOOSE i \in cyclic : \A j \in cyclic : i <= j
                       bad == OnOrAfterCycle(BlockQueries(queries, order[first]))
                   IN /\ error.kind = "circular"
                      /\ {error.names[x] : x \in DOMAIN error.names} = bad
                      /\ Len(error.names) = Cardinality(bad)

\* C33 witness: the error was raised for the second block, whose cycle is a
\* self-loop, and lists a query that is not on the cycle next to the one
\* that is; the first block had no cycle.
C33_Witness ==
    /\ CycleRaised
    /\ Len(queries) = 3
    /\ queries[1].block_name # queries[2].block_name
    /\ queries[3].block_name = queries[2].block_name
    /\ Len(error.names) = 2
    /\ LET bq == BlockQueries(queries, queries[2].block_name)
           g == LocalGraph(bq, Producers(queries))
       IN \E x \in DOMAIN error.names :
             ~HasPath(g, NamesOf(bq), error.names[x], error.names[x], Len(bq))


(* ---------------- properties of catalogs with one writer -------------- *)
\* Every table is written by at most one query of the catalog.
OneWriterPerTable == \A t \in AllTables : Cardinality(Writers(t)) <= 1

\* No query reads a table that it writes.
NoSelfRead ==
    \A x \in DOMAIN queries : queries[x].dependencies \cap queries[x].outputs = {}

\* C34: when every table has at most one writer in the whole catalog and no
\* query reads a table it writes, a returned plan has, for every two queries
\* of one block of which one writes a table that the other reads, the writer
\* in a strictly earlier batch than the reader.
C34_WriterBeforeReader ==
    (PlanReturned /\ OneWriterPerTable /\ NoSelfRead) =>
        LET slots == Slots IN
        \A s1, s2 \in slots :
            (/\ s1[1] = s2[1]
             /\ s1 # s2
             /\ At(s1).outputs \cap At(s2).dependencies # {})
            => s1[2] < s2[2]

\* C34 witness: a returned plan of one block for a catalog with one writer
\* per table and no self-reading query, in which the second query reads what
\* the first writes and the third reads what the second writes.
C34_Witness ==
    /\ PlanReturned
    /\ OneWriterPerTable
    /\ NoSelfRead
    /\ Len(plan) = 1
    /\ Len(plan[1].batches) = 3
    /\ plan[1].batches[1][1].outputs \cap plan[1].batches[2][1].dependencies # {}
    /\ plan[1].batches[2][1].outputs \cap plan[1].batches[3][1].dependencies # {}


(* ------------------ properties of writers in a batch ------------------ *)
\* C35: in a returned plan no two queries of one batch write the same
\* table, and no two queries that run at the same time write the same table.
C35_DisjointOutputsInBatch ==
    /\ PlanReturned =>
          LET slots == Slots IN
          \A s1, s2 \in slots :
              (s1[1] = s2[1] /\ s1[2] = s2[2] /\ s1 # s2)
              => At(s1).outputs \cap At(s2).outputs = {}
    /\ \A n, m \in Running :
          n # m => QueryNamed(n).outputs \cap QueryNamed(m).outputs = {}


(* ----------------- properties of planning before running -------------- *)
\* No query has been sent to the engine by the current call of execute.
NothingDispatched ==
    /\ \A n \in DOMAIN fut : fut[n].state = "new"
    /\ pending = <<>>
    /\ open_connections = {}
    /\ query_times = <<>>
    /\ batch_times = <<>>

\* Some block of the catalog has a cycle in its local graph.
SomeBlockCyclic ==
    LET order == BlockOrder(queries, 1, <<>>)
    IN \E i \in DOMAIN order : OnOrAfterCycle(BlockQueries(queries, order[i])) # {}

\* C36: execute plans every block before it dispatches a query: when some
\* block, whichever it is, has a circular dependency, execute has raised
\* the circular-dependency error and no query of any block was sent to the
\* engine; a query is dispatched only under a plan that holds every block.
C36_PlanBeforeDispatch ==
    /\ (pc # "idle" /\ SomeBlockCyclic) => (CycleRaised /\ NothingDispatched)
    /\ CycleRaised => NothingDispatched
    /\ (\E n \in DOMAIN fut : fut[n].state # "new") =>
          /\ ~SomeBlockCyclic
          /\ Len(plan) = Len(BlockOrder(queries, 1, <<>>))
          /\ TotalQueries(plan, 1) = Len(queries)

\* C36 witness: execute has raised the circular-dependency error for the
\* last of two blocks; the first block, which has no cycle, was not run.
C36_Witness ==
    /\ CycleRaised
    /\ NothingDispatched
    /\ Len(BlockOrder(queries, 1, <<>>)) = 2
    /\ OnOrAfterCycle(BlockQueries(queries, queries[1].block_name)) = {}
    /\ \A x \in DOMAIN error.names :
          QueryNamed(error.names[x]).block_name # queries[1].block_name


(* --------------- properties of the returned statistics ---------------- *)
\* C37: when execute has returned normally, query_times has one entry per
\* query of the plan (total_queries of them) and batch_times one entry per
\* batch of the plan (total_batches of them), whatever an earlier call of
\* execute on the same orchestrator had recorded.
C37_StatsAgreeWithPlan ==
    pc = "done" =>
        LET slots == Slots IN
        /\ Len(query_times) = TotalQueries(plan, 1)
        /\ Len(batch_times) = TotalBatches(plan, 1)
        /\ {query_times[i] : i \in DOMAIN query_times} = {At(s).name : s \in slots}
        /\ {batch_times[i] : i \in DOMAIN batch_times} = {<<s[1], s[2]>> : s \in slots}

\* C37 witness: a second call of execute has returned for a plan of three
\* queries in two batches, one of them run by the pool.
C37_Witness ==
    /\ pc = "done"
    /\ calls = 2
    /\ Len(query_times) = 3
    /\ Len(batch_times) = 2
    /\ max_workers = 2


(* ---------------- properties of blocks of the same name --------------- *)
\* Catalog positions x < y < z such that the queries at x and z come from
\* two input blocks of one name and the query at y from a block of another
\* name that lies between them.
Interleaved ==
    {t \in (DOMAIN queries) \X (DOMAIN queries) \X (DOMAIN queries) :
        /\ t[1] < t[2] /\ t[2] < t[3]
        /\ queries[t[1]].block_name = queries[t[3]].block_name
        /\ queries[t[2]].block_name # queries[t[1]].block_name
        /\ \A y \in 1 .. t[1] : queries[y].block_name # queries[t[2]].block_name}

\* C38: input blocks of the same name, adjacent or not, make one block of
\* the returned plan, at the place of the first of them: the block names of
\* the plan are pairwise distinct, every query is in the plan block of its
\* block name, a query of the later block comes before the queries of the
\* blocks in between, and it shares the first batch with the queries of the
\* earlier block when neither has anything to wait for.
C38_SameNamedBlocksMerged ==
    PlanReturned =>
        LET slots == Slots IN
        /\ \A i1, i2 \in DOMAIN plan : plan[i1].name = plan[i2].name => i1 = i2
        /\ \A i1, i2 \in DOMAIN plan :
              i1 < i2 => FirstSeen(plan[i1].name) < FirstSeen(plan[i2].name)
        /\ \A s \in slots : At(s).block_name = plan[s[1]].name
        /\ \A x \in DOMAIN queries :
              \E s \in slots : /\ At(s).name = queries[x].name
                               /\ plan[s[1]].name = queries[x].block_name
        /\ \A t \in Interleaved :
              \A s1, s2 \in slots :
                  (At(s1) = queries[t[3]] /\ At(s2) = queries[t[2]]) => s1[1] < s2[1]
        /\ \A s1, s2 \in slots :
              (/\ s1[1] = s2[1]
               /\ NothingToWaitFor(At(s1)) /\ \A q \in Namesakes(At(s1)) : NothingToWaitFor(q)
               /\ NothingToWaitFor(At(s2)) /\ \A q \in Namesakes(At(s2)) : NothingToWaitFor(q))
              => (s1[2] = 1 /\ s2[2] = 1)

\* C38 witness: a returned plan for input blocks named b1, b2, b1 with one
\* query each: the plan has two blocks, and the queries of the two blocks
\* named b1 share the first batch of the first one.
C38_Witness ==
    /\ PlanReturned
    /\ Len(queries) = 3
    /\ Interleaved = {<<1, 2, 3>>}
    /\ Len(plan) = 2
    /\ Len(plan[1].batches) = 1
    /\ plan[1].batches[1] = <<queries[1], queries[3]>>
    /\ plan[2].batches = << <<queries[2]>> >>


(* ----------------- properties of queries without tables --------------- *)
\* The catalog positions of the queries that carry no dependencies and no
\* outputs, as the query of a script whose extraction failed does.
WithoutTables ==
    {x \in DOMAIN queries : queries[x].dependencies = {} /\ queries[x].outputs = {}}

\* C39: in a returned plan, a query with empty dependencies and empty
\* outputs has no edge of the local graph of its block ending or starting
\* at it and is in the first batch of its block, whatever its text and
\* whatever the other queries of the block.
C39_DegradedInFirstBatch ==
    PlanReturned =>
        LET slots == Slots IN
        \A x \in WithoutTables :
            /\ NoEdgeAt(queries[x])
            /\ \E s \in slots : /\ At(s) = queries[x]
                                /\ plan[s[1]].name = queries[x].block_name
            /\ \A s \in slots : At(s) = queries[x] => s[2] = 1


(* ---------------------- properties of the catalog --------------------- *)
\* A step of build_block_execution_plan or of execute: it starts a call or
\* belongs to one that has started.
PlanOrExecuteStep == pc # "idle" \/ pc' # "idle"

\* Every query of the plan is a record of the catalog.
PlanOfCatalogRecords ==
    PlanReturned => \A s \in Slots : \E x \in DOMAIN queries : At(s) = queries[x]

\* C40: no step of build_block_execution_plan or of execute changes the
\* catalog: the list of queries keeps its length and order and every query
\* its name, text, dependencies, outputs, block name and code name; the
\* queries in the batches of the plan are records of the catalog.
C40_CatalogUnchanged ==
    /\ []PlanOfCatalogRecords
    /\ [][PlanOrExecuteStep => queries' = queries]_vars

\* C40 witness: execute has returned after running a catalog of three
\* queries in two blocks, and the catalog still holds the three queries that
\* the plan holds.
C40_Witness ==
    /\ pc = "done"
    /\ Len(queries) = 3
    /\ Len(plan) = 2
    /\ {At(s) : s \in Slots} = {queries[x] : x \in DOMAIN queries}
    /\ \A x \in DOMAIN queries : queries[x].name = x

=============================================================================
